---------------------------- MODULE Spec2Model ----------------------------
(***************************************************************************)
(* ICProtocol (pyintellicenter/protocol.py): the line framer, the          *)
(* one-request-on-the-wire flow control, message processing and the        *)
(* heartbeat (keepalive, flow-control deadlock reset, idle timeout).       *)
(*                                                                         *)
(* Time is the event loop's clock in seconds.  Every callback of the       *)
(* protocol runs to completion on the event loop, so each handler is one   *)
(* action; the calls it makes are operators over a record of the           *)
(* protocol's fields that is threaded through them.                        *)
(***************************************************************************)
EXTENDS Integers, Sequences, FiniteSets, TLC

\* ------------------------------------------------------------- constants
HEARTBEAT_INTERVAL == 30
FLOW_CONTROL_TIMEOUT == 45
KEEPALIVE_INTERVAL == 90
CONNECTION_IDLE_TIMEOUT == 300

\* the value of a timestamp field that was never set (None)
None == -1

\* --------------------------------------------------------------- bounds
\* granularity of the clock: the largest step that divides the four
\* constants above
TimeUnit == FLOW_CONTROL_TIMEOUT - HEARTBEAT_INTERVAL
\* the clock stops MaxSteps time units after the start
MaxSteps == 9
\* commands the application submits through sendCmd
MaxCmds == 3
\* messages the peer sends
MaxMsgs == 3
\* the same three, for the behaviours that run into the idle timeout
MaxIdleSteps == 23
MaxIdleCmds == 1
MaxIdleMsgs == 1
\* length of the byte streams the framer is run on, and the commands
\* submitted meanwhile
MaxLen == 6
MaxFramerCmds == 2
\* the clock, the commands and the messages of the behaviours in which
\* transport.write raises
MaxFailSteps == 10
MaxFailCmds == 1
MaxFailMsgs == 1
\* the commands and the messages of the behaviours in which the peer sends
\* every kind of message
MaxPeerCmds == 2
MaxPeerMsgs == 2
\* the clock, the commands, the messages and the connections of the
\* behaviours in which the protocol object is connected again
MaxReuseSteps == 9
MaxReuseCmds == 2
MaxReuseMsgs == 1
MaxConns == 2
MaxLiveSteps == 4
MaxLiveCmds == 1
MaxLiveMsgs == 1
MaxLiveConns == 2
\* the clock, the commands and the bytes of the behaviours in which what
\* was written is fed back
MaxEchoSteps == 8
MaxEchoCmds == 1
MaxEchoBytes == 10
\* the messages and the connections of the behaviours of the supervisor
\* and the application
MaxAppMsgs == 2
MaxAppConns == 2
\* reading of the event loop's clock at construction
StartTime == TimeUnit

VARIABLES
    now,          \* the event loop's clock
    bound,        \* where the behaviour is cut off: clock, commands, bytes
    transport,    \* "none" (self._transport is None), "open", "closing", "closed"
    msgID,        \* self._msgID
    lineBuffer,   \* self._lineBuffer, a sequence of characters
    out_pending,  \* self._out_pending
    out_queue,    \* self._out_queue
    last_flow_control_activity,
    last_data_received,
    last_keepalive_sent,
    heartbeat,    \* the heartbeat task: "none", "sleeping", "done", "cancelled"
    wakeAt,       \* when the heartbeat's asyncio.sleep ends
    pipe,         \* bytes sent by the peer and not yet delivered
    rx,           \* the bytes delivered to data_received so far
    written,      \* the requests passed to transport.write, in order
    submitted,    \* number of requests handed to sendRequest so far
    answered,     \* number of responses received that answer a written request
    dropped,      \* requests discarded from the queue by a deadlock reset
    yielded,      \* the lines passed to processMessage, in order
    dispatched,   \* the lines passed to the controller's receivedMessage
    responses,    \* number of calls of responseReceived
    resets,       \* number of flow-control deadlock resets
    lateSend,     \* a request was submitted after some response was received
    trace,        \* what the last handler did, in order
    closes,       \* number of transport.close() calls made by the heartbeat
    cmds,         \* commands submitted by the application so far
    broken,       \* transport.write raises when it is called
    conns,        \* number of connection_made calls so far
    issued,       \* the IDs sendCmd gave out on this connection, in order
    returned,     \* what the last sendCmd call returned (empty: it raised)
    kaFailed,     \* the send of the last keepalive that was due raised
    tasks,        \* heartbeat tasks created and neither finished nor cancelled
    stalledSince, \* since when the in-flight count is positive with no response
    sup,          \* the reconnect supervisor's state
    backoff,      \* the supervisor's backoff wait: "none" or "waiting"
    retried,      \* flips at every reconnect attempt of the supervisor
    events,       \* the lifecycle hooks the supervisor has invoked, in order
    appConnected, \* the connection state the application was last told
    owner,        \* who started the handler: "none", "entry", "coordinator"
    entry,        \* how the last async_setup_entry of the config entry ended
    forwarded,    \* the platforms of the config entry are set up
    stored,       \* hass.data[DOMAIN] holds the entry's handler
    hass,         \* Home Assistant's side: hass.data, listeners, config flow
    stopCalls,    \* number of calls of the handler's stop()
    model,        \* the pool model: object name -> type tag and attributes
    diff,         \* what the last mutation of the model returned
    coordinator_data,  \* coordinator.data, the update given to the listeners
    inserted,     \* the objects created and not removed, with their types
    requests,     \* the calls of the controller's requestChanges, in order
    last_heater,  \* PoolWaterHeater._last_heater
    seen,         \* the HEATER values the body has had, oldest first
    added,        \* the water heater entity has been added to hass
    available,    \* PoolEntity._attr_available
    poolObject,   \* PoolEntity._poolObject: the object the entity is bound to
    optimistic_state,  \* PoolLight._optimistic_state: "None", "True", "False"
    ha_state,     \* what the last async_write_ha_state wrote, and how many
    last_call,    \* the last callback of the entity and what it decided
    generation,   \* how many times the model was built
    notified      \* what the coordinator's listeners were last given

vars == << now, bound, transport, msgID, lineBuffer, out_pending, out_queue,
           last_flow_control_activity, last_data_received, last_keepalive_sent,
           heartbeat, wakeAt, pipe, rx, written, submitted, answered, dropped,
           yielded, dispatched, responses, resets, lateSend, trace, closes,
           cmds, broken, conns, issued, returned, kaFailed, tasks,
           stalledSince, sup, backoff, retried, events, appConnected, owner, entry,
           forwarded, stored, hass, stopCalls, model, diff, coordinator_data,
           inserted,
           requests, last_heater, seen, added, available, poolObject,
           optimistic_state, ha_state, last_call, generation, notified >>

\* one entity of the pool
entity == << available, poolObject, optimistic_state, ha_state, last_call,
             generation >>

\* the state of the entities and of the pool model behind them
home == << model, diff, coordinator_data, inserted, requests, last_heater,
           seen, added, entity >>

\* the supervisor and the application
app == << sup, backoff, retried, events, appConnected, notified, owner, entry,
          forwarded, stored, hass, stopCalls, home >>

\* what the protocol's handlers leave alone
env == << now, bound, pipe, rx, cmds, broken, conns, app >>

\* the protocol's fields and the record of what it did
proto == << transport, msgID, lineBuffer, out_pending, out_queue,
            last_flow_control_activity, last_data_received,
            last_keepalive_sent, heartbeat, wakeAt, written, submitted,
            answered, dropped, yielded, dispatched, responses, resets,
            lateSend, trace, closes, issued, returned, kaFailed, tasks,
            stalledSince >>


\* ------------------------------------------------------------ the bytes
\* A well-formed JSON message of the peer is abbreviated to one byte that
\* names its kind; "C3" "A9" is the two-byte UTF-8 encoding of one
\* non-ASCII character.
CR == "CR"
LF == "LF"
MsgBytes == {"R", "N"}
Bytes == {CR, LF, "C3", "A9"} \cup MsgBytes

\* a message of the peer on the wire, and its length
Message(m) == << m, CR, LF >>
MsgLen == Len(Message("R"))

\* bytes.decode(): strict UTF-8.  Fails on a lead byte without its
\* continuation byte and on a continuation byte without its lead byte.
RECURSIVE DecodeOK(_)
DecodeOK(data) ==
    IF data = << >> THEN TRUE
    ELSE IF Head(data) = "C3"
         THEN Len(data) >= 2 /\ data[2] = "A9" /\ DecodeOK(Tail(Tail(data)))
    ELSE IF Head(data) = "A9" THEN FALSE
    ELSE DecodeOK(Tail(data))

RECURSIVE Decode(_)
Decode(data) ==
    IF data = << >> THEN << >>
    ELSE IF Head(data) = "C3" THEN << "E9" >> \o Decode(Tail(Tail(data)))
    ELSE << Head(data) >> \o Decode(Tail(data))

\* a framer that takes a bare line feed for the terminator
EndsWithCRLF_lf(text) == Len(text) >= 1 /\ text[Len(text)] = LF

\* str.endswith("\r\n")
EndsWithCRLF(text) ==
    Len(text) >= 2 /\ text[Len(text) - 1] = CR /\ text[Len(text)] = LF

\* str.split(text, "\r\n"): the pieces between the terminators, the piece
\* after the last terminator included (empty when text ends with one)
RECURSIVE SplitFrom(_, _)
SplitFrom(text, piece) ==
    IF text = << >> THEN << piece >>
    ELSE IF Len(text) >= 2 /\ text[1] = CR /\ text[2] = LF
         THEN << piece >> \o SplitFrom(Tail(Tail(text)), << >>)
    ELSE SplitFrom(Tail(text), Append(piece, Head(text)))

Split(text) == SplitFrom(text, << >>)

\* The other JSON texts a peer can send, one byte each as well:
\*   "S"  a response whose messageID is that of no request
\*   "K"  an object without messageID or without command
\*   "A"  a JSON value that is not an object (an array, a number, null)
\*   "H"  a notification on which the controller's receivedMessage raises
\*        an exception that is not a KeyError
\*   "Q"  a notification on which receivedMessage raises KeyError
\* "X" is a character that is not JSON.
JsonBytes == MsgBytes \cup {"S", "K", "A", "H", "Q"}
PeerBytes == JsonBytes \cup {"X"}

\* str(int): the decimal digits
Digits == << "0", "1", "2", "3", "4", "5", "6", "7", "8", "9" >>

RECURSIVE Str(_)
Str(n) ==
    IF n < 10 THEN << Digits[n + 1] >>
    ELSE Append(Str(n \div 10), Digits[(n % 10) + 1])

\* The envelope of a request is spelled out: json.dumps of the dict that
\* sendCmd builds is an opening brace, the digits of the messageID, the
\* command, the extra fields if there are any, and a closing brace, the
\* command and the extra fields being one character each.  Nothing
\* follows the closing brace.
Commands == {"SetParamList", "GetParamList"}
Extras == {"OBJTYP=SYSTEM INCR MODE"}

JsonDumps(request) ==
    << "{" >> \o request.messageID \o << request.command >>
        \o (IF request.extra = "" THEN << >> ELSE << request.extra >>)
        \o << "}" >>

\* str.encode(): UTF-8, the inverse of Decode
RECURSIVE Encode(_)
Encode(text) ==
    IF text = << >> THEN << >>
    ELSE IF Head(text) = "E9" THEN << "C3", "A9" >> \o Encode(Tail(text))
    ELSE << Head(text) >> \o Encode(Tail(text))

\* the position of the first character of the line, from position k on,
\* that is not a digit (past the end if there is none)
RECURSIVE DigitsEnd(_, _)
DigitsEnd(line, k) ==
    IF k > Len(line) THEN k
    ELSE IF \E d \in 1..Len(Digits) : Digits[d] = line[k]
         THEN DigitsEnd(line, k + 1)
    ELSE k

\* json.loads on the text of an envelope
IsEnvelope(line) ==
    /\ Len(line) >= 4
    /\ line[1] = "{"
    /\ line[Len(line)] = "}"
    /\ LET k == DigitsEnd(line, 2)
       IN  /\ k > 2
           /\ k < Len(line)
           /\ line[k] \in Commands
           /\ \/ k = Len(line) - 1
              \/ k = Len(line) - 2 /\ line[k + 1] \in Extras

JsonLoads(line) ==
    LET k == DigitsEnd(line, 2)
    IN  [messageID |-> SubSeq(line, 2, k - 1), command |-> line[k],
         extra |-> IF k = Len(line) - 1 THEN "" ELSE line[k + 1]]

\* json.loads(message): a line that is one JSON byte or an envelope
\* parses; any other line (two objects run together, a stray character)
\* is not JSON
JsonOK(line) ==
    \/ Len(line) = 1 /\ line[1] \in JsonBytes
    \/ IsEnvelope(line)

\* msg["messageID"] on a value that is not a dict raises TypeError
IsObject(line) == line[1] # "A"

\* json.loads(message) and the reads of msg["messageID"], msg["command"]
\* succeed: the line is a JSON object with both fields
ParseOK(line) == JsonOK(line) /\ IsObject(line) /\ line[1] # "K"

\* msg.get("response") is truthy
HasResponse(line) == line[1] \in {"R", "S"}

\* the response carries the messageID of the request on the wire
AnswersRequest(line) == line[1] = "R"

\* what the controller's receivedMessage does with the message
HandlerRaises(line) ==
    CASE line[1] = "H" -> "ValueError"
      [] line[1] = "Q" -> "KeyError"
      [] OTHER -> "none"

\* ------------------------------------------------ the protocol's fields
St == [ transport |-> transport, msgID |-> msgID, lineBuffer |-> lineBuffer,
        out_pending |-> out_pending, out_queue |-> out_queue,
        last_flow_control_activity |-> last_flow_control_activity,
        last_data_received |-> last_data_received,
        last_keepalive_sent |-> last_keepalive_sent,
        written |-> written, submitted |-> submitted, answered |-> answered,
        dropped |-> dropped, yielded |-> yielded, dispatched |-> dispatched,
        responses |-> responses, resets |-> resets, lateSend |-> lateSend,
        trace |-> << >>,
        closes |-> closes, heartbeat |-> heartbeat, wakeAt |-> wakeAt,
        issued |-> issued, returned |-> returned, kaFailed |-> kaFailed,
        tasks |-> tasks, stalledSince |-> stalledSince,
        broken |-> broken, exc |-> "none" ]

Set(s) ==
    /\ transport' = s.transport
    /\ msgID' = s.msgID
    /\ lineBuffer' = s.lineBuffer
    /\ out_pending' = s.out_pending
    /\ out_queue' = s.out_queue
    /\ last_flow_control_activity' = s.last_flow_control_activity
    /\ last_data_received' = s.last_data_received
    /\ last_keepalive_sent' = s.last_keepalive_sent
    /\ written' = s.written
    /\ submitted' = s.submitted
    /\ answered' = s.answered
    /\ dropped' = s.dropped
    /\ yielded' = s.yielded
    /\ dispatched' = s.dispatched
    /\ responses' = s.responses
    /\ resets' = s.resets
    /\ lateSend' = s.lateSend
    /\ trace' = s.trace
    /\ closes' = s.closes
    /\ heartbeat' = s.heartbeat
    /\ wakeAt' = s.wakeAt
    /\ issued' = s.issued
    /\ returned' = s.returned
    /\ kaFailed' = s.kaFailed
    /\ tasks' = s.tasks
    /\ stalledSince' = s.stalledSince

\* an exception of the given type is propagating
Raise(s, type) == [s EXCEPT !.exc = type]
Raised(s) == s.exc # "none"
Caught(s) == [s EXCEPT !.exc = "none"]

Note(s, event) == [s EXCEPT !.trace = Append(@, event)]

\* ---------------------------------------------------------- flow control
\* transport.write either takes the bytes or raises
writeToTransport(s, request) ==
    IF s.broken
    THEN Raise(Note(s, << "write raises", request.seq >>), "OSError")
    ELSE Note([s EXCEPT !.written = Append(@, request)],
              << "write", request.seq >>)

\* sendRequest without the throttle: the request is written at once
sendRequest_unthrottled(s, request, t) ==
    LET s1 == writeToTransport(s, request)
    IN  IF Raised(s1) THEN s1
        ELSE [s1 EXCEPT !.out_pending = @ + 1,
                        !.last_flow_control_activity = t,
                        !.submitted = @ + 1,
                        !.lateSend = @ \/ s.responses > 0]

\* an exception of the write leaves before the count and the stamp are
\* touched
sendRequest(s, request, t) ==
    LET s1 == IF s.out_pending = 0
              THEN writeToTransport(s, request)
              ELSE [s EXCEPT !.out_queue = Append(@, request)]
    IN  IF Raised(s1) THEN s1
        ELSE [s1 EXCEPT !.out_pending = @ + 1,
                        !.last_flow_control_activity = t,
                        !.submitted = @ + 1,
                        !.lateSend = @ \/ s.responses > 0,
                        !.stalledSince = IF s.out_pending = 0 THEN t ELSE @]

\* seq numbers the requests in the order of their submission; the counter
\* is incremented before the request is sent, and nothing is returned
\* when the send raises
sendCmd(s, cmd, extra, t) ==
    LET msg_id  == Str(s.msgID)
        request == [seq |-> s.submitted + 1, messageID |-> msg_id,
                    command |-> cmd, extra |-> extra]
        s1 == sendRequest([s EXCEPT !.msgID = @ + 1,
                                    !.issued = Append(@, msg_id),
                                    !.returned = << >>],
                          request, t)
    IN  IF Raised(s1) THEN s1 ELSE [s1 EXCEPT !.returned = msg_id]

\* responseReceived taking the newest queued request instead of the oldest
responseReceived_lifo(s, t) ==
    LET n  == Len(s.out_queue)
        s1 == IF n > 0
              THEN writeToTransport(
                       [s EXCEPT !.out_queue = SubSeq(@, 1, n - 1)],
                       s.out_queue[n])
              ELSE s
        s2 == IF s1.out_pending # 0
              THEN [s1 EXCEPT !.out_pending = @ - 1]
              ELSE s1
    IN  IF Raised(s1) THEN s1
        ELSE [s2 EXCEPT !.last_flow_control_activity = t,
                        !.responses = @ + 1,
                        !.stalledSince = IF s2.out_pending > 0 THEN t
                                         ELSE None]

\* the queued request is taken off the queue before it is written: when
\* the write raises it is lost and the count is left as it was
responseReceived(s, t) ==
    LET s1 == IF s.out_queue # << >>
              THEN writeToTransport([s EXCEPT !.out_queue = Tail(@)],
                                    Head(s.out_queue))
              ELSE s
        s2 == IF s1.out_pending # 0
              THEN [s1 EXCEPT !.out_pending = @ - 1]
              ELSE s1
    IN  IF Raised(s1) THEN s1
        ELSE [s2 EXCEPT !.last_flow_control_activity = t,
                        !.responses = @ + 1,
                        !.stalledSince = IF s2.out_pending > 0 THEN t
                                         ELSE None]

\* ---------------------------------------------------- message processing
\* self._controller.receivedMessage(msg_id, command, response, msg)
receivedMessage(s, line) ==
    LET s1 == Note([s EXCEPT !.dispatched = Append(@, line)],
                   << "receivedMessage", line >>)
    IN  IF HandlerRaises(line) = "none" THEN s1
        ELSE Raise(Note(s1, << "handler raises", HandlerRaises(line) >>),
                   HandlerRaises(line))

\* the try releasing the flow control on every message that parses
processMessage_try_anyMessage(s, line, t) ==
    IF ~JsonOK(line) THEN Raise(s, "JSONDecodeError")
    ELSE IF ~IsObject(line) THEN Raise(s, "TypeError")
    ELSE IF ~ParseOK(line) THEN Raise(s, "KeyError")
    ELSE LET s1 == responseReceived(s, t)
         IN  IF Raised(s1) THEN s1 ELSE receivedMessage(s1, line)

\* the body of the try.  A response answers the oldest written request
\* that has none yet; with no such request it is unsolicited.
processMessage_try(s, line, t) ==
    IF ~JsonOK(line) THEN Raise(s, "JSONDecodeError")
    ELSE IF ~IsObject(line) THEN Raise(s, "TypeError")
    ELSE IF ~ParseOK(line) THEN Raise(s, "KeyError")
    ELSE LET s1 == IF HasResponse(line)
                   THEN responseReceived(
                            [s EXCEPT !.answered =
                                IF AnswersRequest(line) /\ @ < Len(s.written)
                                THEN @ + 1 ELSE @],
                            t)
                   ELSE s
         IN  IF Raised(s1) THEN s1
             ELSE receivedMessage(
                      IF HasResponse(line)
                      THEN Note(s1, << "released", line >>) ELSE s1,
                      line)

\* transport.close(): the transport is closing from then on
forceClose(s) ==
    Note([s EXCEPT !.transport = IF @ = "open" THEN "closing" ELSE @],
         << "force close" >>)

\* the except clauses, in the order of the code: the first two log and go
\* on whatever statement of the try raised, the last one closes
processMessage_except(s) ==
    IF ~Raised(s) THEN s
    ELSE IF s.exc \in {"JSONDecodeError", "KeyError"}
    THEN Note(Caught(s), << "dropped", s.exc >>)
    ELSE forceClose(Caught(s))

\* the release of the flow control kept for the responses that answer the
\* request on the wire
processMessage_matching(s, line, t) ==
    LET s0 == Note([s EXCEPT !.yielded = Append(@, line)],
                   << "process", line, s.lineBuffer >>)
    IN  IF ParseOK(line) /\ HasResponse(line)
           /\ ~(AnswersRequest(line) /\ s.answered < Len(s.written))
        THEN processMessage_except(receivedMessage(s0, line))
        ELSE processMessage_except(processMessage_try(s0, line, t))

processMessage(s, line, t) ==
    LET s0 == Note([s EXCEPT !.yielded = Append(@, line)],
                   << "process", line, s.lineBuffer >>)
    IN  processMessage_except(processMessage_try(s0, line, t))

\* the loop over the lines running from the last line to the first
RECURSIVE processLines_reversed(_, _, _)
processLines_reversed(s, lines, t) ==
    IF lines = << >> THEN s
    ELSE LET last == lines[Len(lines)]
             rest == SubSeq(lines, 1, Len(lines) - 1)
         IN  IF last # << >>
             THEN processLines_reversed(processMessage(s, last, t), rest, t)
             ELSE processLines_reversed(s, rest, t)

RECURSIVE processLines(_, _, _)
processLines(s, lines, t) ==
    IF lines = << >> THEN s
    ELSE IF Head(lines) # << >>
         THEN processLines(processMessage(s, Head(lines), t), Tail(lines), t)
    ELSE processLines(s, Tail(lines), t)

\* An exception raised by data_received is caught by the transport, which
\* closes itself (asyncio's fatal-error path).
data_received(s, data, t) ==
    LET s1 == Note([s EXCEPT !.last_data_received = t],
                   << "data", s.lineBuffer >>)
        buf == s.lineBuffer \o Decode(data)
    IN  IF ~DecodeOK(data)
        THEN Note([s1 EXCEPT !.transport = "closing"], << "raise" >>)
        ELSE IF ~EndsWithCRLF(buf)
        THEN [s1 EXCEPT !.lineBuffer = buf]
        ELSE processLines([s1 EXCEPT !.lineBuffer = << >>], Split(buf), t)


\* ------------------------------------------------------------ heartbeat
\* "if self._last_...:" is false for None and for a clock reading of 0
Truthy(stamp) == stamp # None /\ stamp # 0

is_closing(s) == s.transport \in {"closing", "closed"}

Range(q) == { q[i] : i \in 1..Len(q) }

\* the keepalive sent as soon as the interval has elapsed, not after it
keepalive_ge(s, t) ==
    IF Truthy(s.last_keepalive_sent)
       /\ t - s.last_keepalive_sent >= KEEPALIVE_INTERVAL
    THEN LET s1 == sendCmd(Note(s, << "keepalive" >>), "GetParamList",
                           "OBJTYP=SYSTEM INCR MODE", t)
         IN  IF Raised(s1)
             THEN [Note(Caught(s1), << "keepalive failed" >>)
                      EXCEPT !.kaFailed = TRUE]
             ELSE [s1 EXCEPT !.last_keepalive_sent = t, !.kaFailed = FALSE]
    ELSE s

\* a keepalive stamped although its send raised
keepalive_stampsFailure(s, t) ==
    IF Truthy(s.last_keepalive_sent)
       /\ t - s.last_keepalive_sent > KEEPALIVE_INTERVAL
    THEN LET s1 == sendCmd(Note(s, << "keepalive" >>), "GetParamList",
                           "OBJTYP=SYSTEM INCR MODE", t)
         IN  IF Raised(s1)
             THEN [Note(Caught(s1), << "keepalive failed" >>)
                      EXCEPT !.last_keepalive_sent = t, !.kaFailed = TRUE]
             ELSE [s1 EXCEPT !.last_keepalive_sent = t, !.kaFailed = FALSE]
    ELSE s

\* the send is wrapped in its own try: an exception is logged, the stamp
\* is left alone and the loop goes on to the two checks
keepalive(s, t) ==
    IF Truthy(s.last_keepalive_sent)
       /\ t - s.last_keepalive_sent > KEEPALIVE_INTERVAL
    THEN LET s1 == sendCmd(Note(s, << "keepalive" >>), "GetParamList",
                           "OBJTYP=SYSTEM INCR MODE", t)
         IN  IF Raised(s1)
             THEN [Note(Caught(s1), << "keepalive failed" >>)
                      EXCEPT !.kaFailed = TRUE]
             ELSE [s1 EXCEPT !.last_keepalive_sent = t, !.kaFailed = FALSE]
    ELSE s

\* a reset as soon as anything is in flight, however recent the activity
deadlockReset_eager(s, t) ==
    IF Truthy(s.last_flow_control_activity)
       /\ s.out_pending > 0
    THEN Note([s EXCEPT !.out_pending = 0, !.out_queue = << >>,
                        !.dropped = @ \cup Range(s.out_queue),
                        !.resets = @ + 1,
                        !.stalledSince = None],
              << "reset" >>)
    ELSE s

\* a reset that zeroes the counter and forgets to drain the queue
deadlockReset_keepQueue(s, t) ==
    IF Truthy(s.last_flow_control_activity)
       /\ s.out_pending > 0
       /\ t - s.last_flow_control_activity > FLOW_CONTROL_TIMEOUT
    THEN Note([s EXCEPT !.out_pending = 0,
                        !.dropped = @ \cup Range(s.out_queue),
                        !.resets = @ + 1],
              << "reset" >>)
    ELSE s

deadlockReset(s, t) ==
    IF Truthy(s.last_flow_control_activity)
       /\ s.out_pending > 0
       /\ t - s.last_flow_control_activity > FLOW_CONTROL_TIMEOUT
    THEN Note([s EXCEPT !.out_pending = 0, !.out_queue = << >>,
                        !.dropped = @ \cup Range(s.out_queue),
                        !.resets = @ + 1,
                        !.stalledSince = None],
              << "reset" >>)
    ELSE s

\* the idle check closing as soon as the threshold is reached
idleCheck_ge(s, t) ==
    IF Truthy(s.last_data_received)
       /\ t - s.last_data_received >= CONNECTION_IDLE_TIMEOUT
    THEN Note([s EXCEPT !.transport = "closing", !.closes = @ + 1,
                        !.heartbeat = "done", !.tasks = @ - 1],
              << "close" >>)
    ELSE [s EXCEPT !.wakeAt = t + HEARTBEAT_INTERVAL]

idleCheck(s, t) ==
    IF Truthy(s.last_data_received)
       /\ t - s.last_data_received > CONNECTION_IDLE_TIMEOUT
    THEN Note([s EXCEPT !.transport = "closing", !.closes = @ + 1,
                        !.heartbeat = "done", !.tasks = @ - 1],
              << "close" >>)
    ELSE [s EXCEPT !.wakeAt = t + HEARTBEAT_INTERVAL]

\* one iteration of the loop, from the end of the sleep to the next sleep
heartbeat_loop(s, t) ==
    IF s.transport = "none" \/ is_closing(s)
    THEN [s EXCEPT !.heartbeat = "done", !.tasks = @ - 1]
    ELSE idleCheck(deadlockReset(keepalive(s, t), t), t)

\* ------------------------------------------------------------- actions
InitWithConns(steps, maxCmds, maxBytes, stream, maxConns) ==
    /\ now = StartTime
    /\ bound = [horizon |-> StartTime + steps * TimeUnit, cmds |-> maxCmds,
                bytes |-> maxBytes, conns |-> maxConns]
    /\ transport = "none"
    /\ msgID = 1
    /\ lineBuffer = << >>
    /\ out_pending = 0
    /\ out_queue = << >>
    /\ last_flow_control_activity = None
    /\ last_data_received = None
    /\ last_keepalive_sent = None
    /\ heartbeat = "none"
    /\ wakeAt = None
    /\ pipe = stream
    /\ rx = << >>
    /\ written = << >>
    /\ submitted = 0
    /\ answered = 0
    /\ dropped = {}
    /\ yielded = << >>
    /\ dispatched = << >>
    /\ responses = 0
    /\ resets = 0
    /\ lateSend = FALSE
    /\ trace = << >>
    /\ closes = 0
    /\ cmds = 0
    /\ broken = FALSE
    /\ conns = 0
    /\ issued = << >>
    /\ returned = << >>
    /\ kaFailed = FALSE
    /\ tasks = 0
    /\ stalledSince = None
    /\ sup = "DISCONNECTED"
    /\ backoff = "none"
    /\ retried = FALSE
    /\ events = << >>
    /\ appConnected = FALSE
    /\ owner = "none"
    /\ entry = "not_loaded"
    /\ forwarded = FALSE
    /\ stored = FALSE
    /\ hass = [domainKey |-> FALSE, others |-> FALSE, listener |-> FALSE,
               returned |-> "none", stop_listener |-> FALSE,
               flow |-> << >>]
    /\ stopCalls = 0
    /\ model = << >>
    /\ diff = << >>
    /\ coordinator_data = << >>
    /\ inserted = << >>
    /\ requests = << >>
    /\ last_heater = "none"
    /\ seen = << >>
    /\ added = FALSE
    /\ available = TRUE
    /\ poolObject = << >>
    /\ optimistic_state = "None"
    /\ ha_state = [writes |-> 0, is_on |-> FALSE, available |-> FALSE]
    /\ last_call = << >>
    /\ generation = 0
    /\ notified = [connected |-> FALSE, data |-> << >>]

\* one connection
InitWith(steps, maxCmds, maxBytes, stream) ==
    InitWithConns(steps, maxCmds, maxBytes, stream, 1)

Init == InitWith(MaxSteps, MaxCmds, MsgLen * MaxMsgs, << >>)

\* connection_made leaving the counter where the last connection left it
connection_made_keepsCounter(s, t) ==
    [s EXCEPT !.transport = "open",
              !.last_flow_control_activity = t,
              !.last_data_received = t,
              !.last_keepalive_sent = t,
              !.heartbeat = "sleeping",
              !.wakeAt = t + HEARTBEAT_INTERVAL,
              !.tasks = @ + 1,
              !.issued = << >>, !.kaFailed = FALSE]

\* the transport of a new connection is in working order; issued is the
\* record of the new connection's IDs
connection_made(s, t) ==
    [s EXCEPT !.transport = "open", !.msgID = 1,
              !.last_flow_control_activity = t,
              !.last_data_received = t,
              !.last_keepalive_sent = t,
              !.heartbeat = "sleeping",
              !.wakeAt = t + HEARTBEAT_INTERVAL,
              !.tasks = @ + 1,
              !.issued = << >>, !.kaFailed = FALSE,
              !.stalledSince = IF s.out_pending > 0 THEN t ELSE None]

ConnectionMade ==
    /\ \/ transport = "none"
       \/ transport = "closed" /\ conns < bound.conns
    /\ Set(connection_made(St, now))
    /\ conns' = conns + 1
    /\ broken' = FALSE
    /\ UNCHANGED << now, bound, pipe, rx, cmds, app >>

\* the transport fails or the peer closes: it is closing from then on and
\* connection_lost follows
TransportError ==
    /\ transport = "open"
    /\ Set([St EXCEPT !.transport = "closing"])
    /\ UNCHANGED env

\* connection_lost leaving the heartbeat task to itself
connection_lost_noCancel(s) == [s EXCEPT !.transport = "closed"]

\* the heartbeat task is cancelled unless it is done
connection_lost(s) ==
    IF s.heartbeat = "sleeping"
    THEN [s EXCEPT !.transport = "closed", !.heartbeat = "cancelled",
                   !.tasks = @ - 1]
    ELSE [s EXCEPT !.transport = "closed"]

ConnectionLost ==
    /\ transport = "closing"
    /\ Set(connection_lost(St))
    /\ UNCHANGED env

\* the application submits a command
SendCmd ==
    /\ transport = "open"
    /\ cmds < bound.cmds
    /\ Set(sendCmd(St, "SetParamList", "", now))
    /\ cmds' = cmds + 1
    /\ UNCHANGED << now, bound, pipe, rx, broken, conns, app >>

DataReceived(data) ==
    /\ transport = "open"
    /\ Len(rx) + Len(data) <= bound.bytes
    /\ Set(data_received(St, data, now))
    /\ rx' = rx \o data
    /\ UNCHANGED << now, bound, cmds, broken, conns, app >>

\* the peer sends one message and it arrives in one chunk
Receive ==
    /\ pipe = << >>
    /\ \E m \in MsgBytes : DataReceived(Message(m))
    /\ UNCHANGED pipe

\* the transport delivers the next bytes of the peer's stream
Deliver ==
    \E k \in 1..Len(pipe) :
        /\ DataReceived(SubSeq(pipe, 1, k))
        /\ pipe' = SubSeq(pipe, k + 1, Len(pipe))

HeartbeatTick ==
    /\ heartbeat = "sleeping"
    /\ now = wakeAt
    /\ Set(heartbeat_loop(St, now))
    /\ UNCHANGED env

\* the clock is followed while the connection is up
Advance ==
    /\ now < bound.horizon
    /\ transport \in {"open", "closing"}
    /\ heartbeat = "sleeping" => now < wakeAt
    /\ now' = now + TimeUnit
    /\ UNCHANGED << bound, transport, msgID, lineBuffer, out_pending,
                    out_queue, last_flow_control_activity, last_data_received,
                    last_keepalive_sent, heartbeat, wakeAt, pipe, rx, written,
                    submitted, answered, dropped, yielded, dispatched,
                    responses, resets, lateSend, trace, closes, cmds,
                    broken, conns, issued, returned, kaFailed, tasks,
                    stalledSince, app >>

Next ==
    \/ ConnectionMade
    \/ TransportError
    \/ ConnectionLost
    \/ SendCmd
    \/ Receive
    \/ HeartbeatTick
    \/ Advance

Spec == Init /\ [][Next]_vars

\* a quiet connection followed long enough to run into the idle timeout
InitIdle == InitWith(MaxIdleSteps, MaxIdleCmds, MsgLen * MaxIdleMsgs, << >>)

SpecIdle == InitIdle /\ [][Next]_vars

\* transport.write starts or stops raising
WriteBreaks ==
    /\ transport = "open"
    /\ ~broken
    /\ broken' = TRUE
    /\ UNCHANGED << now, bound, transport, msgID, lineBuffer, out_pending,
                    out_queue, last_flow_control_activity, last_data_received,
                    last_keepalive_sent, heartbeat, wakeAt, pipe, rx, written,
                    submitted, answered, dropped, yielded, dispatched,
                    responses, resets, lateSend, trace, closes, cmds,
                    conns, issued, returned, kaFailed, tasks, stalledSince,
                    app >>

WriteRecovers ==
    /\ transport = "open"
    /\ broken
    /\ broken' = FALSE
    /\ UNCHANGED << now, bound, transport, msgID, lineBuffer, out_pending,
                    out_queue, last_flow_control_activity, last_data_received,
                    last_keepalive_sent, heartbeat, wakeAt, pipe, rx, written,
                    submitted, answered, dropped, yielded, dispatched,
                    responses, resets, lateSend, trace, closes, cmds,
                    conns, issued, returned, kaFailed, tasks, stalledSince,
                    app >>

\* the peer sends one or two messages of any kind and they arrive in one
\* chunk
ReceiveAny ==
    /\ pipe = << >>
    /\ \/ \E m \in PeerBytes : DataReceived(Message(m))
       \/ \E m1, m2 \in PeerBytes : DataReceived(Message(m1) \o Message(m2))
    /\ UNCHANGED pipe

InitPeer == InitWith(0, MaxPeerCmds, MsgLen * MaxPeerMsgs, << >>)

NextPeer ==
    \/ ConnectionMade
    \/ ConnectionLost
    \/ SendCmd
    \/ ReceiveAny
    \/ WriteBreaks
    \/ WriteRecovers

SpecPeer == InitPeer /\ [][NextPeer]_vars

InitFail == InitWith(MaxFailSteps, MaxFailCmds, MsgLen * MaxFailMsgs, << >>)

NextFail ==
    \/ Next
    \/ WriteBreaks
    \/ WriteRecovers

SpecFail == InitFail /\ [][NextFail]_vars

\* the protocol object serves one connection after the other
InitReuse ==
    InitWithConns(MaxReuseSteps, MaxReuseCmds, MsgLen * MaxReuseMsgs, << >>,
                  MaxConns)

SpecReuse == InitReuse /\ [][Next]_vars

\* the same over a shorter time; the event loop calls connection_lost
\* once the transport is closing
InitLive ==
    InitWithConns(MaxLiveSteps, MaxLiveCmds, MsgLen * MaxLiveMsgs, << >>,
                  MaxLiveConns)

SpecLive == InitLive /\ [][Next]_vars /\ WF_vars(ConnectionLost)

\* the bytes passed to transport.write for a request
WireBytes(request) == Encode(JsonDumps(request))

\* the bytes written for the i-th request come back as one chunk
EchoOf(i) == DataReceived(WireBytes(written[i])) /\ UNCHANGED pipe

Echo == \E i \in 1..Len(written) : EchoOf(i)

InitEcho == InitWith(MaxEchoSteps, MaxEchoCmds, MaxEchoBytes, << >>)

NextEcho ==
    \/ Next
    \/ Echo

SpecEcho == InitEcho /\ [][NextEcho]_vars

\* ------------------------------------- the supervisor and the application
\* The reconnect supervisor (the connection handler):
\*   DISCONNECTED -> CONNECTING -> CONNECTED -> (RECONNECTING <-> CONNECTED)
\*   -> DISCONNECTED on stop().
\* A connect attempt runs to its end within one step, so CONNECTING is
\* not a state between steps.

\* a connect attempt that succeeds: the transport calls connection_made
Connected ==
    /\ transport \in {"none", "closed"}
    /\ conns < bound.conns
    /\ Set(connection_made(St, now))
    /\ conns' = conns + 1
    /\ broken' = FALSE
    /\ UNCHANGED << now, bound, pipe, rx, cmds >>

\* a connect attempt that fails: nothing of the protocol changes
NotConnected == UNCHANGED << proto, now, bound, pipe, rx, cmds, broken, conns >>

\* the outcomes of a connect attempt
Outcomes == {"ok", "ConnectionRefusedError", "TimeoutError"}

\* start(): the initial connect; a failure is raised to the caller
start(outcome) ==
    /\ sup = "DISCONNECTED"
    /\ IF outcome = "ok"
       THEN /\ Connected
            /\ sup' = "CONNECTED"
            /\ events' = Append(events, "started")
       ELSE /\ NotConnected
            /\ UNCHANGED << sup, events >>
    /\ UNCHANGED << backoff, retried, stopCalls >>

\* stop(): the backoff wait is cancelled, the transport is closed, and the
\* supervisor is DISCONNECTED until the next start()
stop ==
    /\ sup' = "DISCONNECTED"
    /\ backoff' = "none"
    /\ stopCalls' = stopCalls + 1
    /\ Set([St EXCEPT !.transport = IF @ = "open" THEN "closing" ELSE @])
    /\ UNCHANGED << now, bound, pipe, rx, cmds, broken, conns, retried,
                    events >>

\* the coordinator is told that the connection is back, but not the
\* listeners' view of it
on_reconnected_silent == UNCHANGED << appConnected, notified >>

\* DataUpdateCoordinator.async_update_listeners: the listeners are called
\* and read the coordinator's state
async_update_listeners(connected, data) ==
    notified' = [connected |-> connected, data |-> data]

\* async_set_connection_state keeping the change from the listeners
async_set_connection_state_quiet(connected) ==
    /\ appConnected' = connected
    /\ UNCHANGED notified

\* IntelliCenterCoordinator.async_set_connection_state
async_set_connection_state(connected) ==
    /\ appConnected' = connected
    /\ async_update_listeners(connected, coordinator_data)

\* _CoordinatorConnectionHandler.on_reconnected and Handler.reconnected:
\* the application is told that the connection is back
on_reconnected == async_set_connection_state(TRUE)

\* _CoordinatorConnectionHandler.on_disconnected and Handler.disconnected
on_disconnected == async_set_connection_state(FALSE)

\* connection_lost of the protocol, which passes it on to the controller
\* and the supervisor: an established connection that was not stopped is
\* reconnected after a backoff wait.  What a stopped supervisor tells the
\* application about the connection it closed is left open.
SupervisedConnectionLost ==
    /\ transport = "closing"
    /\ Set(connection_lost(St))
    /\ IF sup = "CONNECTED"
       THEN /\ sup' = "RECONNECTING"
            /\ backoff' = "waiting"
            /\ events' = Append(events, "disconnected")
            /\ on_disconnected
       ELSE /\ UNCHANGED << sup, backoff >>
            /\ \/ UNCHANGED << events, appConnected, notified >>
               \/ events' = Append(events, "disconnected") /\ on_disconnected
    /\ UNCHANGED << now, bound, pipe, rx, cmds, broken, conns, retried,
                    owner, entry, forwarded, stored, hass, stopCalls, home >>

\* the backoff wait is over: the supervisor tries to connect and, when
\* that fails, waits again
Retry ==
    /\ sup = "RECONNECTING"
    /\ backoff = "waiting"
    /\ retried' = ~retried
    /\ \/ /\ Connected
          /\ sup' = "CONNECTED"
          /\ backoff' = "none"
          /\ events' = Append(events, "reconnected")
          /\ on_reconnected
       \/ /\ NotConnected
          /\ UNCHANGED << sup, backoff, events, appConnected, notified >>
    /\ UNCHANGED << owner, entry, forwarded, stored, hass, stopCalls, home >>

\* async_setup_entry with the platforms forwarded before the handler is
\* started
async_setup_entry_forwardsFirst(outcome) ==
    IF outcome = "ok"
    THEN [result |-> "loaded", forwarded |-> TRUE, stored |-> TRUE]
    ELSE IF outcome = "ConnectionRefusedError"
    THEN [result |-> "ConfigEntryNotReady", forwarded |-> TRUE,
          stored |-> FALSE]
    ELSE [result |-> outcome, forwarded |-> TRUE, stored |-> FALSE]

\* async_setup_entry after handler.start(): the platforms are forwarded
\* and the handler is stored when start() returns; ConnectionRefusedError
\* becomes ConfigEntryNotReady; any other exception leaves as it is
async_setup_entry(outcome) ==
    IF outcome = "ok"
    THEN [result |-> "loaded", forwarded |-> TRUE, stored |-> TRUE]
    ELSE IF outcome = "ConnectionRefusedError"
    THEN [result |-> "ConfigEntryNotReady", forwarded |-> FALSE,
          stored |-> FALSE]
    ELSE [result |-> outcome, forwarded |-> FALSE, stored |-> FALSE]

AsyncSetupEntry(outcome) ==
    /\ owner = "none"
    /\ start(outcome)
    /\ entry' = async_setup_entry(outcome).result
    /\ forwarded' = async_setup_entry(outcome).forwarded
    /\ stored' = async_setup_entry(outcome).stored
    /\ owner' = IF outcome = "ok" THEN "entry" ELSE "none"
    /\ hass' = IF outcome = "ok"
               THEN [hass EXCEPT !.domainKey = TRUE, !.listener = TRUE]
               ELSE hass
    /\ UNCHANGED << appConnected, notified, home >>

SetupEntry == \E outcome \in Outcomes : AsyncSetupEntry(outcome)

\* bool(unload_ok) as the caller sees it
Bool(b) == IF b THEN "True" ELSE "False"

\* async_unload_entry tearing down only what was unloaded
async_unload_entry_onlyOnSuccess(unload_ok) ==
    IF unload_ok
    THEN /\ stop
         /\ entry' = "not_loaded"
         /\ forwarded' = FALSE
         /\ stored' = FALSE
         /\ hass' = [hass EXCEPT !.listener = FALSE,
                                 !.domainKey = hass.others,
                                 !.returned = Bool(unload_ok)]
         /\ owner' = "none"
    ELSE /\ hass' = [hass EXCEPT !.returned = Bool(unload_ok)]
         /\ entry' = "failed_unload"
         /\ UNCHANGED << proto, now, bound, pipe, rx, cmds, broken, conns,
                         sup, backoff, retried, events, stopCalls, forwarded,
                         stored, owner >>

\* async_unload_entry: whatever async_unload_platforms returns, the
\* entry's data is taken out of hass.data, the stop listener is cancelled,
\* the handler is stopped, and the domain key goes with its last entry
async_unload_entry(unload_ok) ==
    /\ stop
    /\ entry' = IF unload_ok THEN "not_loaded" ELSE "failed_unload"
    /\ forwarded' = ~unload_ok
    /\ stored' = FALSE
    /\ hass' = [hass EXCEPT !.listener = FALSE,
                            !.domainKey = hass.others,
                            !.returned = Bool(unload_ok)]
    /\ owner' = "none"

AsyncUnloadEntry ==
    /\ owner = "entry"
    /\ \E unload_ok \in BOOLEAN : async_unload_entry(unload_ok)
    /\ UNCHANGED << appConnected, notified, home >>

\* IntelliCenterCoordinator.async_start: the stop listener is registered,
\* then the handler is started; when start() raises the rest is skipped
AsyncStart ==
    /\ owner = "none"
    /\ hass' = [hass EXCEPT !.stop_listener = TRUE]
    /\ \E outcome \in Outcomes :
          /\ start(outcome)
          /\ appConnected' = IF outcome = "ok" THEN TRUE ELSE appConnected
          /\ owner' = IF outcome = "ok" THEN "coordinator" ELSE "none"
    /\ UNCHANGED << entry, forwarded, stored, notified, home >>

\* async_stop that forgets the handler
async_stop_flagOnly ==
    /\ hass' = [hass EXCEPT !.stop_listener = FALSE]
    /\ appConnected' = FALSE
    /\ UNCHANGED << proto, now, bound, pipe, rx, cmds, broken, conns, sup,
                    backoff, retried, events, stopCalls >>

\* IntelliCenterCoordinator.async_stop
async_stop ==
    /\ hass' = [hass EXCEPT !.stop_listener = FALSE]
    /\ stop
    /\ appConnected' = FALSE

AsyncStop ==
    /\ owner = "coordinator"
    /\ async_stop
    /\ owner' = "none"
    /\ UNCHANGED << entry, forwarded, stored, notified, home >>

\* the peer sends a notification; the controller may fail on it, which
\* closes the transport
ReceiveNotification ==
    /\ pipe = << >>
    /\ \E m \in {"N", "H"} : DataReceived(Message(m))
    /\ UNCHANGED pipe

InitApp == InitWithConns(0, 0, MsgLen * MaxAppMsgs, << >>, MaxAppConns)

NextApp ==
    \/ SetupEntry
    \/ AsyncUnloadEntry
    \/ AsyncStart
    \/ AsyncStop
    \/ TransportError
    \/ ReceiveNotification
    \/ SupervisedConnectionLost
    \/ Retry

\* another config entry of the integration is set up or unloaded by the
\* same two functions
OtherEntrySetup ==
    /\ ~hass.others
    /\ hass' = [hass EXCEPT !.others = TRUE, !.domainKey = TRUE]
    /\ UNCHANGED << proto, now, bound, pipe, rx, cmds, broken, conns, sup,
                    backoff, retried, events, appConnected, notified, owner,
                    entry, forwarded, stored, stopCalls, home >>

OtherEntryUnload ==
    /\ hass.others
    /\ hass' = [hass EXCEPT !.others = FALSE, !.domainKey = stored]
    /\ UNCHANGED << proto, now, bound, pipe, rx, cmds, broken, conns, sup,
                    backoff, retried, events, appConnected, notified, owner,
                    entry, forwarded, stored, stopCalls, home >>

NextHass ==
    \/ NextApp
    \/ OtherEntrySetup
    \/ OtherEntryUnload

SpecHass == InitApp /\ [][NextHass]_vars

\* the event loop calls connection_lost once the transport is closing, and
\* the backoff wait ends
SpecApp ==
    /\ InitApp
    /\ [][NextApp]_vars
    /\ WF_vars(SupervisedConnectionLost)
    /\ WF_vars(Retry)

\* ---------------------------------------------------------------------
\* The config flow's manual step and its probe of the host

MaxProbes == 3

\* how the probe controller's start() ends: it returns with or without
\* system info, or it raises
ProbeOutcomes ==
    {"ok", "no_system_info", "ConnectionRefusedError", "OSError",
     "TimeoutError", "ValueError"}

\* the probe controller's stop(): its connection is closed
probe_stop(c) == [c EXCEPT !.stops = @ + 1, !.open = FALSE]

\* _get_system_info stopping the controller only when it has the system
\* info
get_system_info_noFinally(outcome) ==
    LET c == [stops |-> 0, open |-> outcome \in {"ok", "no_system_info"},
              result |-> "none"]
    IN  IF outcome = "ok"
        THEN probe_stop([c EXCEPT !.result = "system_info"])
        ELSE IF outcome = "no_system_info"
        THEN [c EXCEPT !.result = "CannotConnect"]
        ELSE IF outcome \in {"ConnectionRefusedError", "OSError",
                             "TimeoutError"}
        THEN [c EXCEPT !.result = "CannotConnect"]
        ELSE [c EXCEPT !.result = outcome]

\* _get_system_info: start(), the system info or CannotConnect, and stop()
\* in the finally clause on every path; an exception that is not a
\* connection error passes through
get_system_info(outcome) ==
    LET c == [stops |-> 0, open |-> outcome \in {"ok", "no_system_info"},
              result |-> "none"]
        tried == IF outcome = "ok"
                 THEN [c EXCEPT !.result = "system_info"]
                 ELSE IF outcome = "no_system_info"
                 THEN [c EXCEPT !.result = "CannotConnect"]
                 ELSE IF outcome \in {"ConnectionRefusedError", "OSError",
                                      "TimeoutError"}
                 THEN [c EXCEPT !.result = "CannotConnect"]
                 ELSE [c EXCEPT !.result = outcome]
    IN  probe_stop(tried)

\* async_step_manual with the user's input: what the flow shows next, and
\* the probe it has made on the way
async_step_manual(host_valid, outcome, configured) ==
    IF ~host_valid
    THEN [step |-> "form", errors |-> "invalid_host", probe |-> << >>,
          outcome |-> "none"]
    ELSE LET c == get_system_info(outcome)
         IN  [step |-> IF c.result = "system_info"
                       THEN IF configured THEN "abort" ELSE "create_entry"
                       ELSE "form",
              errors |-> IF c.result = "system_info" THEN "none"
                         ELSE IF c.result = "CannotConnect"
                         THEN "cannot_connect"
                         ELSE "unknown",
              probe |-> c,
              outcome |-> outcome]

\* the user submits the manual form; an entry of the same system exists
\* once the flow has created it
AsyncStepManual ==
    /\ Len(hass.flow) < MaxProbes
    /\ \E host_valid \in BOOLEAN, outcome \in ProbeOutcomes :
          hass' = [hass EXCEPT !.flow =
                      Append(@, async_step_manual(
                                    host_valid, outcome,
                                    \E i \in 1..Len(hass.flow) :
                                        hass.flow[i].step = "create_entry"))]
    /\ UNCHANGED << proto, now, bound, pipe, rx, cmds, broken, conns, sup,
                    backoff, retried, events, appConnected, notified, owner,
                    entry, forwarded, stored, stopCalls, home >>

SpecProbe == InitApp /\ [][AsyncStepManual]_vars

\* ---------------------------------------------------------------------
\* The pool model: objects keyed by name, each with a type tag and a
\* mapping of attribute names to values

\* everything but the entities and the model
session == << proto, now, bound, pipe, rx, cmds, broken, conns, sup, backoff,
              retried, events, appConnected, owner, entry, forwarded, stored,
              hass, stopCalls >>

ObjNames == {"LIGHT1", "LIGHT2", "PUMP1"}
ObjTyp(name) ==
    CASE name = "PUMP1" -> "PUMP"
      [] name = "COVER1" -> "EXTINSTR"
      [] name = "POOL1" -> "BODY"
      [] OTHER -> "CIRCUIT"
AttrNames == {"STATUS", "USE"}
AttrValues == {"ON", "OFF"}

\* every mapping of some of the attribute names to values
Updates == UNION { [keys -> AttrValues] : keys \in SUBSET AttrNames }

\* the attributes of an update whose values differ from the object's
Changed(attrs, upd) ==
    { a \in DOMAIN upd : a \notin DOMAIN attrs \/ attrs[a] # upd[a] }

\* an update that replaces the attributes of the object
update_replace(attrs, upd) ==
    [attrs |-> upd,
     changed |-> [a \in Changed(attrs, upd) |-> upd[a]]]

\* an update of one object: only the keys present change, and the
\* attributes that changed are returned
update(attrs, upd) ==
    [attrs |-> [a \in DOMAIN attrs \cup DOMAIN upd |->
                    IF a \in DOMAIN upd THEN upd[a] ELSE attrs[a]],
     changed |-> [a \in Changed(attrs, upd) |-> upd[a]]]

\* upsert creates the object with its full snapshot or merges into it
upsert(m, name, objtyp, attrs) ==
    IF name \in DOMAIN m
    THEN LET u == update(m[name].attrs, attrs)
         IN  [model |-> [n \in DOMAIN m |->
                            IF n = name
                            THEN [objtyp |-> m[n].objtyp, attrs |-> u.attrs]
                            ELSE m[n]],
              diff |-> IF DOMAIN u.changed = {}
                       THEN << >>
                       ELSE [n \in {name} |-> u.changed]]
    ELSE [model |-> [n \in DOMAIN m \cup {name} |->
                        IF n = name
                        THEN [objtyp |-> objtyp, attrs |-> attrs]
                        ELSE m[n]],
          diff |-> [n \in {name} |-> attrs]]

\* a removal that leaves the model as it is
remove_ignored(m, name) == m

remove(m, name) == [n \in DOMAIN m \ {name} |-> m[n]]

\* name lookup: the object, or absence
get(m, name) == IF name \in DOMAIN m THEN {m[name]} ELSE {}

\* the type scan: the names of the objects that hold the type tag
by_type(m, objtyp) == { n \in DOMAIN m : m[n].objtyp = objtyp }

\* on_updated hands the updates to the coordinator, which keeps them as its
\* data for the listeners
async_set_updated_data(updates) ==
    /\ coordinator_data' = updates
    /\ async_update_listeners(appConnected, updates)

on_updated(updates) == async_set_updated_data(updates)

\* the session applies a notification to the model and forwards the diff
\* when there is one
Forward ==
    IF diff' = << >>
    THEN UNCHANGED << coordinator_data, notified >>
    ELSE on_updated(diff')

Upsert(name, attrs) ==
    /\ model' = upsert(model, name, ObjTyp(name), attrs).model
    /\ diff' = upsert(model, name, ObjTyp(name), attrs).diff
    /\ Forward
    /\ inserted' = [n \in DOMAIN inserted \cup {name} |-> ObjTyp(n)]
    /\ UNCHANGED << session, entity, requests, last_heater, seen, added >>

Remove(name) ==
    /\ name \in DOMAIN model
    /\ model' = remove(model, name)
    /\ diff' = << >>
    /\ inserted' = [n \in DOMAIN inserted \ {name} |-> inserted[n]]
    /\ UNCHANGED << session, entity, coordinator_data, notified, requests,
                    last_heater, seen, added >>

InitModel == InitWith(0, 0, 0, << >>)

NextModel ==
    \/ \E name \in ObjNames, attrs \in Updates : Upsert(name, attrs)
    \/ \E name \in ObjNames : Remove(name)

SpecModel == InitModel /\ [][NextModel]_vars

\* the coordinator over its connection: the controller applies what the
\* device reports to the model and hands the diff to on_updated
Updated ==
    /\ owner = "coordinator"
    /\ appConnected
    /\ \E status \in AttrValues : Upsert("PUMP1", "STATUS" :> status)

NextCoordinator ==
    \/ AsyncStart
    \/ AsyncStop
    \/ TransportError
    \/ ReceiveNotification
    \/ SupervisedConnectionLost
    \/ Retry
    \/ Updated

SpecCoordinator == InitApp /\ [][NextCoordinator]_vars

\* ---------------------------------------------------------------------
\* The pool cover entity

MaxRequests == 2

\* PoolEntity.requestChanges: one call of the controller's requestChanges
\* for the entity's own object, not waiting for the response
requestChanges(objnam, changes) ==
    [objnam |-> objnam, changes |-> changes, waitForResponse |-> FALSE]

\* the cover is closed when STATUS and NORMAL agree
is_closed(attrs) == (attrs["STATUS"] = "ON") = (attrs["NORMAL"] = "ON")

\* each request is kept with the call that made it and the object's
\* attributes at that moment
Requested(call, objnam, changes) ==
    /\ Len(requests) < MaxRequests
    /\ requests' = Append(requests,
                          [request |-> requestChanges(objnam, changes),
                           call |-> call,
                           at |-> model[objnam].attrs])
    /\ UNCHANGED << session, entity, model, diff, coordinator_data, notified,
                    inserted, last_heater, seen, added >>

async_open_cover ==
    /\ "COVER1" \in DOMAIN model
    /\ LET normal == model["COVER1"].attrs["NORMAL"] = "ON"
       IN  Requested("open", "COVER1",
                     "STATUS" :> (IF normal THEN "OFF" ELSE "ON"))

\* async_close_cover for a cover that is always normally closed
async_close_cover_normallyClosed ==
    /\ "COVER1" \in DOMAIN model
    /\ Requested("close", "COVER1", "STATUS" :> "ON")

async_close_cover ==
    /\ "COVER1" \in DOMAIN model
    /\ LET normal == model["COVER1"].attrs["NORMAL"] = "ON"
       IN  Requested("close", "COVER1",
                     "STATUS" :> (IF normal THEN "ON" ELSE "OFF"))

\* the device carries out the oldest request and reports the change, which
\* is merged into the object
ApplyRequest ==
    /\ requests # << >>
    /\ LET r == Head(requests).request
       IN  /\ model' = upsert(model, r.objnam, ObjTyp(r.objnam), r.changes).model
           /\ diff' = upsert(model, r.objnam, ObjTyp(r.objnam), r.changes).diff
    /\ Forward
    /\ requests' = Tail(requests)
    /\ UNCHANGED << session, entity, inserted, last_heater, seen, added >>

\* the cover object with every STATUS and NORMAL, its two services, and the
\* device changing either attribute on its own
NextCover ==
    \/ /\ "COVER1" \notin DOMAIN model
       /\ \E attrs \in [{"STATUS", "NORMAL"} -> {"ON", "OFF"}] :
            Upsert("COVER1", attrs)
    \/ async_open_cover
    \/ async_close_cover
    \/ ApplyRequest
    \/ /\ "COVER1" \in DOMAIN model
       /\ \E a \in {"STATUS", "NORMAL"}, v \in {"ON", "OFF"} :
            Upsert("COVER1", a :> v)

SpecCover == InitModel /\ [][NextCover]_vars

\* ---------------------------------------------------------------------
\* The water heater entity of the body POOL1

MaxUpdates == 3

NULL_OBJNAM == "00000"
heater_list == << "HTR01", "HTR02" >>
Heaters == {"HTR01", "HTR02", NULL_OBJNAM}

\* what the device reports of the body: its heater, its status, or an
\* attribute the entity does not look at
BodyUpdates ==
    [{"HEATER"} -> Heaters] \cup [{"STATUS"} -> {"ON", "OFF"}]
        \cup [{"VOL"} -> {"ON", "OFF"}]

\* the entity is built for a body that is in the model and remembers the
\* body's heater
PoolWaterHeater(attrs) ==
    /\ "POOL1" \notin DOMAIN model
    /\ model' = upsert(model, "POOL1", ObjTyp("POOL1"), attrs).model
    /\ diff' = upsert(model, "POOL1", ObjTyp("POOL1"), attrs).diff
    /\ Forward
    /\ last_heater' = attrs["HEATER"]
    /\ seen' = << attrs["HEATER"] >>
    /\ UNCHANGED << session, entity, inserted, requests, added >>

\* with no heater at construction, the heater kept in the entity's last
\* stored state is taken; last_state is "none" when nothing was stored
async_added_to_hass(last_state) ==
    /\ "POOL1" \in DOMAIN model
    /\ ~added
    /\ added' = TRUE
    /\ last_heater' = IF /\ last_heater = NULL_OBJNAM
                         /\ last_state # "none"
                         /\ last_state # NULL_OBJNAM
                      THEN last_state
                      ELSE last_heater
    /\ UNCHANGED << session, entity, model, diff, coordinator_data, notified,
                    inserted, requests, seen >>

\* isUpdated remembering whatever heater the body has
isUpdated_tracksNull(updates, attrs, last) ==
    LET my_updates == IF "POOL1" \in DOMAIN updates
                      THEN updates["POOL1"] ELSE << >>
        updated == DOMAIN my_updates \cap
                   {"STATUS", "HEATER", "HTMODE", "LOTMP", "LSTTMP"} # {}
    IN  [updated |-> updated,
         last_heater |-> IF updated THEN attrs["HEATER"] ELSE last]

\* isUpdated: on an update of one of the entity's attributes, the body's
\* heater is remembered unless it is the null object
isUpdated(updates, attrs, last) ==
    LET my_updates == IF "POOL1" \in DOMAIN updates
                      THEN updates["POOL1"] ELSE << >>
        updated == DOMAIN my_updates \cap
                   {"STATUS", "HEATER", "HTMODE", "LOTMP", "LSTTMP"} # {}
    IN  [updated |-> updated,
         last_heater |-> IF updated /\ attrs["HEATER"] # NULL_OBJNAM
                         THEN attrs["HEATER"]
                         ELSE last]

\* the device reports a change of the body: it is merged into the object,
\* the diff goes to the listeners and the entity looks at it; a report of
\* what the oldest request asked for answers that request
BodyUpdate(upd) ==
    /\ added
    /\ Len(seen) <= MaxUpdates
    /\ model' = upsert(model, "POOL1", ObjTyp("POOL1"), upd).model
    /\ diff' = upsert(model, "POOL1", ObjTyp("POOL1"), upd).diff
    /\ Forward
    /\ last_heater' = IF diff' = << >>
                      THEN last_heater
                      ELSE isUpdated(diff', model'["POOL1"].attrs,
                                     last_heater).last_heater
    /\ seen' = Append(seen, model'["POOL1"].attrs["HEATER"])
    /\ requests' = IF requests # << >> /\ Head(requests).request.changes = upd
                   THEN Tail(requests)
                   ELSE requests
    /\ UNCHANGED << session, entity, inserted, added >>

async_turn_on ==
    /\ added
    /\ LET heater == IF last_heater \notin {"none", ""} /\ last_heater # NULL_OBJNAM
                     THEN last_heater
                     ELSE heater_list[1]
       IN  Requested("turn_on", "POOL1", "HEATER" :> heater)

async_turn_off ==
    /\ added
    /\ Requested("turn_off", "POOL1", "HEATER" :> NULL_OBJNAM)

NextHeater ==
    \/ \E status \in {"ON", "OFF"}, heater \in Heaters :
         PoolWaterHeater(("STATUS" :> status) @@ ("HEATER" :> heater))
    \/ \E last_state \in Heaters \cup {"none"} : async_added_to_hass(last_state)
    \/ \E upd \in BodyUpdates : BodyUpdate(upd)
    \/ async_turn_on
    \/ async_turn_off

SpecHeater == InitModel /\ [][NextHeater]_vars

\* ---------------------------------------------------------------------
\* The light entity of LIGHT1: the callbacks of PoolEntity and the
\* optimistic state of PoolLight

MaxWrites == 3
MaxGenerations == 2

\* the protocol, the supervisor and the config entry
link == << proto, now, bound, pipe, rx, cmds, broken, conns, sup, backoff,
           retried, events, owner, entry, forwarded, stored, hass, stopCalls >>

LightAttrs == [{"STATUS", "USE"} -> AttrValues]

\* the models the controller can load: the light is there or it is not
Loaded ==
    { << >> } \cup
    { [n \in {"LIGHT1"} |-> [objtyp |-> ObjTyp(n), attrs |-> a]] :
        a \in LightAttrs }

\* the object of the model that holds the name: model[objnam] or None
Lookup(m, objnam, gen) ==
    IF objnam \in DOMAIN m
    THEN [objnam |-> objnam, gen |-> gen, attrs |-> m[objnam].attrs]
    ELSE << >>

\* the entity holds a reference to its object: it sees the attributes
\* that the model gives to that object for as long as the object is the
\* model's
Aliased(obj, m, gen) ==
    IF obj # << >> /\ obj.gen = gen /\ obj.objnam \in DOMAIN m
    THEN [obj EXCEPT !.attrs = m[obj.objnam].attrs]
    ELSE obj

\* is_on: the override when there is one, the object's status otherwise
is_on(opt, obj) ==
    IF opt # "None" THEN opt = "True" ELSE obj.attrs["STATUS"] = "ON"

\* Entity.async_write_ha_state: the state machine gets what the entity's
\* properties say at that moment
async_write_ha_state(opt, obj, avail) ==
    /\ ha_state.writes < MaxWrites
    /\ ha_state' = [writes |-> ha_state.writes + 1,
                    is_on |-> is_on(opt, obj),
                    available |-> avail]

\* PoolEntity._check_attributes_updated
check_attributes_updated(updates, objnam, attributes) ==
    LET my_updates == IF objnam \in DOMAIN updates
                      THEN updates[objnam] ELSE << >>
    IN  IF DOMAIN my_updates = {} THEN FALSE
        ELSE attributes \cap DOMAIN my_updates # {}

\* PoolLight.isUpdated
PoolLight_isUpdated(updates, objnam) ==
    check_attributes_updated(updates, objnam, {"STATUS", "USE"})

\* _update_callback writing the state on every update
update_callback_always(updates) ==
    /\ last_call' = [call |-> "update", updates |-> updates,
                     updated |-> PoolLight_isUpdated(updates,
                                                     poolObject.objnam)]
    /\ available' = TRUE
    /\ async_write_ha_state(optimistic_state, poolObject', TRUE)
    /\ UNCHANGED optimistic_state

\* PoolEntity._update_callback
update_callback(updates) ==
    /\ last_call' = [call |-> "update", updates |-> updates,
                     updated |-> PoolLight_isUpdated(updates,
                                                     poolObject.objnam)]
    /\ IF PoolLight_isUpdated(updates, poolObject.objnam)
       THEN /\ available' = TRUE
            /\ async_write_ha_state(optimistic_state, poolObject', TRUE)
       ELSE UNCHANGED << available, ha_state >>
    /\ UNCHANGED optimistic_state

\* _connection_callback making the entity available on every connection
connection_callback_always(is_connected) ==
    LET updated_obj == Lookup(model', poolObject.objnam, generation')
    IN  /\ last_call' = [call |-> "connection", is_connected |-> is_connected,
                         found |-> updated_obj # << >>]
        /\ poolObject' = IF is_connected /\ updated_obj # << >>
                         THEN updated_obj ELSE poolObject
        /\ available' = is_connected
        /\ async_write_ha_state(optimistic_state, poolObject', is_connected)
        /\ UNCHANGED optimistic_state

\* PoolEntity._connection_callback
connection_callback(is_connected) ==
    LET updated_obj == Lookup(model', poolObject.objnam, generation')
    IN  /\ last_call' = [call |-> "connection", is_connected |-> is_connected,
                         found |-> updated_obj # << >>]
        /\ IF is_connected /\ updated_obj = << >>
           THEN UNCHANGED << poolObject, available, ha_state >>
           ELSE /\ poolObject' = IF is_connected THEN updated_obj
                                 ELSE poolObject
                /\ available' = is_connected
                /\ async_write_ha_state(optimistic_state, poolObject',
                                        is_connected)
        /\ UNCHANGED optimistic_state

\* the controller has connected and loaded the model
ModelLoaded ==
    /\ generation = 0
    /\ \E m \in Loaded \ { << >> } : model' = m
    /\ generation' = 1
    /\ appConnected' = TRUE
    /\ UNCHANGED << link, diff, coordinator_data, notified, inserted,
                    requests, last_heater, seen, added, available, poolObject,
                    optimistic_state, ha_state, last_call >>

\* the light platform builds the entity for the light of the model
PoolLight ==
    /\ appConnected
    /\ poolObject = << >>
    /\ "LIGHT1" \in DOMAIN model
    /\ poolObject' = Lookup(model, "LIGHT1", generation)
    /\ available' = TRUE
    /\ optimistic_state' = "None"
    /\ UNCHANGED << session, model, diff, coordinator_data, notified,
                    inserted, requests, last_heater, seen, added, ha_state,
                    last_call, generation >>

\* PoolLight.async_turn_on and async_turn_off
LightTurn(opt, status) ==
    /\ Len(requests) < MaxRequests
    /\ optimistic_state' = opt
    /\ async_write_ha_state(opt, poolObject, available)
    /\ requests' = Append(requests,
                          [request |-> requestChanges(poolObject.objnam,
                                                      "STATUS" :> status),
                           call |-> "turn",
                           at |-> poolObject.attrs])
    /\ last_call' = [call |-> "turn", optimistic |-> opt]
    /\ UNCHANGED << session, model, diff, coordinator_data, notified,
                    inserted, last_heater, seen, added, available, poolObject,
                    generation >>

light_async_turn_on ==
    /\ poolObject # << >>
    /\ LightTurn("True", "ON")

light_async_turn_off ==
    /\ poolObject # << >>
    /\ LightTurn("False", "OFF")

\* the device reports a change of a light: it is merged into the model and
\* the diff, when there is one, goes to the entity; a report of what the
\* oldest request asked for answers that request
LightUpdate(name, upd) ==
    /\ appConnected
    /\ poolObject # << >>
    /\ model' = upsert(model, name, ObjTyp(name), upd).model
    /\ diff' = upsert(model, name, ObjTyp(name), upd).diff
    /\ Forward
    /\ IF diff' = << >>
       THEN /\ poolObject' = poolObject
            /\ UNCHANGED << available, optimistic_state, ha_state, last_call >>
       ELSE /\ poolObject' = Aliased(poolObject, model', generation)
            /\ update_callback(diff')
    /\ requests' = IF /\ requests # << >>
                      /\ Head(requests).request.objnam = name
                      /\ Head(requests).request.changes = upd
                   THEN Tail(requests)
                   ELSE requests
    /\ UNCHANGED << session, inserted, last_heater, seen, added, generation >>

\* the connection is lost: the entities are told
Disconnected ==
    /\ appConnected
    /\ on_disconnected
    /\ UNCHANGED << model, generation >>
    /\ IF poolObject = << >>
       THEN UNCHANGED << available, poolObject, optimistic_state, ha_state,
                         last_call >>
       ELSE connection_callback(FALSE)
    /\ UNCHANGED << link, diff, coordinator_data, inserted, requests,
                    last_heater, seen, added >>

\* the connection is back: the controller has loaded the model anew, with
\* new objects, and the entities are told
Reconnected ==
    /\ ~appConnected
    /\ generation \in 1..(MaxGenerations - 1)
    /\ on_reconnected
    /\ \E m \in Loaded : model' = m
    /\ generation' = generation + 1
    /\ IF poolObject = << >>
       THEN UNCHANGED << available, poolObject, optimistic_state, ha_state,
                         last_call >>
       ELSE connection_callback(TRUE)
    /\ UNCHANGED << link, diff, coordinator_data, inserted, requests,
                    last_heater, seen, added >>

NextEntity ==
    \/ ModelLoaded
    \/ PoolLight
    \/ light_async_turn_on
    \/ light_async_turn_off
    \/ \E upd \in Updates : LightUpdate("LIGHT1", upd)
    \/ \E status \in AttrValues : LightUpdate("LIGHT2", "STATUS" :> status)
    \/ Disconnected
    \/ Reconnected

SpecEntity == InitModel /\ [][NextEntity]_vars

\* the framer on every stream of complete UTF-8 characters, cut into
\* chunks in every way
Streams(n) == UNION { [1..k -> Bytes] : k \in 0..n }

InitFramer ==
    \E stream \in Streams(MaxLen) :
        /\ DecodeOK(stream)
        /\ InitWith(0, MaxFramerCmds, MaxLen, stream)

\* the commands are submitted before the stream arrives
SendCmdFirst == rx = << >> /\ SendCmd

NextFramer ==
    \/ ConnectionMade
    \/ ConnectionLost
    \/ SendCmdFirst
    \/ Deliver

SpecFramer == InitFramer /\ [][NextFramer]_vars


\* ---------------------------------------------------------------- claims
Seqs(q) == [ i \in 1..Len(q) |-> q[i].seq ]

\* C1: at most one request that was written to the transport is still
\* unanswered at any time.
C1_OneRequestOnTheWire == Len(written) - answered <= 1

\* C2: requests are written to the transport in the order they were
\* submitted.
C2_WrittenInSubmissionOrder ==
    \A i, j \in 1..Len(written) :
        i < j => written[i].seq < written[j].seq

\* three requests written, one of them released from the queue by a
\* response and one of them a keepalive
C2_Witness ==
    /\ Len(written) >= 3
    /\ \E i \in 1..Len(trace) : trace[i][1] = "released"
    /\ \E i \in 1..Len(trace) : trace[i][1] = "write"
    /\ \E i \in 1..Len(written) : written[i].command = "GetParamList"

\* C3: from an idle flow controller, N requests submitted and no response:
\* exactly the first is written and the other N-1 are queued in submission
\* order; N responses later the queue is empty, the in-flight count is 0
\* and all N are written in submission order.
C3_SendsThenResponses ==
    (resets = 0 /\ ~lateSend /\ submitted >= 1) =>
        /\ responses = 0 =>
              /\ Seqs(written) = << 1 >>
              /\ Seqs(out_queue) = [ i \in 1..(submitted - 1) |-> i + 1 ]
              /\ out_pending = submitted
        /\ responses = submitted =>
              /\ out_queue = << >>
              /\ out_pending = 0
              /\ Seqs(written) = [ i \in 1..submitted |-> i ]

\* three requests submitted, then three responses received
C3_Witness ==
    /\ resets = 0 /\ ~lateSend
    /\ submitted = 3 /\ responses = 3
    /\ Len(written) = 3


\* the positions in b of the line feed of each terminator, ascending
RECURSIVE TermsUpTo(_, _)
TermsUpTo(b, n) ==
    IF n < 2 THEN << >>
    ELSE IF b[n - 1] = CR /\ b[n] = LF
         THEN Append(TermsUpTo(b, n - 2), n)
    ELSE TermsUpTo(b, n - 1)

\* the bytes between the k-th terminator of b and the one before it (the
\* start of b for the first)
Between(b, terms, k) ==
    SubSeq(b, IF k = 1 THEN 1 ELSE terms[k - 1] + 1, terms[k] - 2)

\* the non-empty terminated lines of b, in order, as text
Lines(b) ==
    LET terms == TermsUpTo(b, Len(b))
        all   == [ k \in 1..Len(terms) |-> Between(b, terms, k) ]
        IsLine(x) == x # << >> /\ DecodeOK(x)
        kept  == SelectSeq(all, IsLine)
    IN  [ k \in 1..Len(kept) |-> Decode(kept[k]) ]

IsPrefix(a, b) == Len(a) <= Len(b) /\ a = SubSeq(b, 1, Len(a))

\* C4: however the byte stream is cut into chunks, the messages passed to
\* processMessage are those passed when it is delivered as one chunk.
C4_ChunkBoundaryInvariance ==
    (pipe = << >> /\ rx # << >>) =>
        yielded = data_received([St EXCEPT !.lineBuffer = << >>,
                                           !.yielded = << >>],
                                rx, now).yielded

\* C5: every message passed to processMessage is non-empty and is the text
\* between two consecutive terminators (or the start and the first
\* terminator) of the bytes received so far, the messages are passed in the
\* order of the stream, and the line buffer is empty at and after every
\* yield.
C5_NoPartialMessage ==
    /\ IsPrefix(yielded, Lines(rx))
    /\ \A i \in 1..Len(trace) :
          trace[i][1] = "process" => trace[i][3] = << >> /\ lineBuffer = << >>

\* two lines yielded by one call although a terminator arrived cut in two
C5_Witness ==
    /\ trace # << >> /\ trace[1][1] = "data"
    /\ trace[1][2] # << >> /\ trace[1][2][Len(trace[1][2])] = CR
    /\ Len(SelectSeq(trace, LAMBDA e : e[1] = "process")) >= 2

\* C6: receivedMessage is invoked for the messages in the order of their
\* terminators in the byte stream, and the handling of one message (release
\* of the flow control, then dispatch) is complete before the next message
\* is taken up.
C6_InOrderOneAtATime ==
    /\ IsPrefix(dispatched, SelectSeq(Lines(rx), ParseOK))
    /\ \A i \in 1..Len(trace) :
          (trace[i][1] = "process" /\ ParseOK(trace[i][2])) =>
              \E k \in (i + 1)..Len(trace) :
                  /\ trace[k] = << "receivedMessage", trace[i][2] >>
                  /\ \A j \in (i + 1)..(k - 1) :
                        trace[j][1] \in {"write", "released"}

\* one chunk carrying a response that releases a queued request, followed
\* by a notification
C6_Witness ==
    /\ \E i \in 1..Len(trace) : trace[i][1] = "write"
    /\ Len(SelectSeq(trace, LAMBDA e : e[1] = "receivedMessage")) >= 2
    /\ Len(dispatched) >= 2
    /\ dispatched[Len(dispatched) - 1] # dispatched[Len(dispatched)]


\* C7: a heartbeat tick that starts with the transport open, an in-flight
\* count above 0 and more than FLOW_CONTROL_TIMEOUT since the last
\* flow-control activity sets the in-flight count to 0 and empties the
\* queue, and writes nothing to the transport.
C7_DeadlockReset ==
    [][ ( /\ HeartbeatTick
          /\ transport = "open"
          /\ out_pending > 0
          /\ now - last_flow_control_activity > FLOW_CONTROL_TIMEOUT )
        => ( out_pending' = 0 /\ out_queue' = << >> /\ written' = written )
      ]_vars

\* C8: a request discarded from the queue by a deadlock reset is never
\* written to the transport.
C8_NoRetryOfDropped ==
    \A r \in dropped : \A i \in 1..Len(written) : written[i].seq # r.seq

\* a request was dropped, a later request was written and a response has
\* arrived since
C8_Witness ==
    /\ \E r \in dropped : \E i \in 1..Len(written) : written[i].seq > r.seq
    /\ \E i \in 1..Len(trace) : trace[i][1] = "released"

\* C9: a heartbeat tick on an open transport closes it if and only if more
\* than CONNECTION_IDLE_TIMEOUT has passed since the last bytes were
\* received; the heartbeat ends with that close and closes at most once.
C9_IdleTimeout ==
    /\ [](closes <= 1)
    /\ [][ (HeartbeatTick /\ transport = "open") =>
             /\ (now - last_data_received > CONNECTION_IDLE_TIMEOUT)
                  <=> (closes' = closes + 1 /\ transport' = "closing")
             /\ closes' # closes => heartbeat' = "done"
             /\ closes' = closes => transport' = "open"
         ]_vars
    /\ [][ ~HeartbeatTick => closes' = closes ]_vars

\* the heartbeat has closed a connection that had received bytes
C9_Witness ==
    /\ closes = 1
    /\ heartbeat = "done"
    /\ rx # << >>
    /\ now - last_data_received > CONNECTION_IDLE_TIMEOUT

\* the request submitted last
Newest ==
    IF out_queue # << >> THEN out_queue[Len(out_queue)]
    ELSE written[Len(written)]

\* C10: a heartbeat tick on an open transport submits a keepalive query
\* (GetParamList of the SYSTEM object's MODE) through sendCmd if and only
\* if more than KEEPALIVE_INTERVAL has passed since the keepalive stamp,
\* which starts at connection_made; after the submission the stamp is the
\* time of the tick.
C10_Keepalive ==
    [][ (HeartbeatTick /\ transport = "open") =>
          LET due == now - last_keepalive_sent > KEEPALIVE_INTERVAL
          IN  /\ due <=> submitted' = submitted + 1
              /\ ~due => ( /\ submitted' = submitted
                           /\ msgID' = msgID
                           /\ last_keepalive_sent' = last_keepalive_sent )
              /\ due => ( /\ last_keepalive_sent' = now
                          /\ msgID' = msgID + 1
                          /\ Newest'.seq = submitted'
                          /\ Newest'.messageID = Str(msgID)
                          /\ Newest'.command = "GetParamList"
                          /\ Newest'.extra = "OBJTYP=SYSTEM INCR MODE" )
      ]_vars

\* a tick has just submitted a keepalive behind an unanswered request
C10_Witness ==
    /\ \E i \in 1..Len(trace) : trace[i][1] = "keepalive"
    /\ last_keepalive_sent = now
    /\ out_queue # << >>
    /\ out_queue[Len(out_queue)].command = "GetParamList"

Count(tr, kind) == Len(SelectSeq(tr, LAMBDA ev : ev[1] = kind))

\* C12: for every inbound message with a truthy response field the flow
\* control is released (responseReceived runs, writing the next queued
\* request if there is one) before the controller's receivedMessage is
\* invoked for it, whether or not its messageID is that of an outstanding
\* request.
C12_ReleaseBeforeDispatch ==
    /\ [](\A i \in 1..Len(trace) :
            /\ ( trace[i][1] = "receivedMessage" /\ HasResponse(trace[i][2]) )
                 => ( i > 1 /\ trace[i - 1] = << "released", trace[i][2] >> )
            /\ ( /\ trace[i][1] = "process"
                 /\ ParseOK(trace[i][2])
                 /\ HasResponse(trace[i][2]) )
                 => \E k \in (i + 1)..Len(trace) :
                       /\ trace[k][1] \in {"released", "write raises"}
                       /\ \A j \in (i + 1)..(k - 1) : trace[j][1] = "write")
    /\ [][ ReceiveAny =>
             /\ responses' = responses + Count(trace', "released")
             /\ Count(trace', "released") > 0 =>
                   last_flow_control_activity' = now
         ]_vars

\* a response that carries the messageID of no request has released a
\* queued request, which was written before the response was dispatched
C12_Witness ==
    \E i \in 1..Len(trace) :
        /\ trace[i][1] = "write"
        /\ i + 2 <= Len(trace)
        /\ trace[i + 1] = << "released", << "S" >> >>
        /\ trace[i + 2] = << "receivedMessage", << "S" >> >>

\* C13: a framed message that is not JSON or that lacks the messageID or
\* the command field is dropped: receivedMessage is not invoked for it,
\* the transport is not closed, the flow control is left as it was, and
\* the messages that follow it are still processed.
C13_MalformedDropped ==
    /\ yielded = Lines(rx)
    /\ \A i \in 1..Len(trace) :
          ( trace[i][1] = "process" /\ ~ParseOK(trace[i][2]) )
             => /\ i < Len(trace)
                /\ trace[i + 1][1] = "dropped"
                /\ i + 1 < Len(trace) => trace[i + 2][1] = "process"

\* C14: an exception raised while a message is processed, other than the
\* two of a malformed message, closes the transport; so does every
\* exception the controller's receivedMessage raises on a well-formed
\* message.
C14_UnexpectedCloses ==
    ( trace # << >> /\ trace[1][1] = "data" ) =>
        \A i \in 1..Len(trace) :
            ( \/ trace[i][1] \in {"handler raises", "write raises"}
              \/ ( /\ trace[i][1] = "process"
                   /\ JsonOK(trace[i][2]) /\ ~IsObject(trace[i][2]) ) )
               => /\ i < Len(trace)
                  /\ trace[i + 1] = << "force close" >>
                  /\ transport # "open"

\* C15: message IDs belong to the connection and increase by one: the
\* first sendCmd after connection_made gives out "1", every later sendCmd
\* on the connection the previous ID plus 1 (keepalives included), the ID
\* returned is the messageID of the envelope, and connection_made sets the
\* counter back to 1 on every new connection.
C15_MessageIDs ==
    /\ [](\A i \in 1..Len(issued) : issued[i] = Str(i))
    /\ [][ (issued' # issued /\ issued' # << >>) =>
             /\ Len(issued') = Len(issued) + 1
             /\ returned' \in { << >>, issued'[Len(issued')] }
             /\ submitted' = submitted + 1 =>
                   /\ returned' = issued'[Len(issued')]
                   /\ Newest'.messageID = returned'
         ]_vars
    /\ [][ ConnectionMade => (msgID' = 1 /\ issued' = << >>) ]_vars

\* on its second connection the protocol has given out "1" again and a
\* keepalive has just taken the next ID
C15_Witness ==
    /\ conns = 2
    /\ \E i, j \in 1..Len(written) :
          i < j /\ written[i].messageID = << "1" >>
                /\ written[j].messageID = << "1" >>
    /\ \E i \in 1..Len(trace) : trace[i][1] = "keepalive"
    /\ Len(issued) >= 2
    /\ returned = issued[Len(issued)]

\* C16: the heartbeat does not outlive its connection: with the transport
\* closing or closed a tick sends no keepalive, resets nothing and closes
\* nothing and ends the task, connection_lost leaves no task running, the
\* task of a closing transport terminates, and no connection has more than
\* one heartbeat task.
C16_HeartbeatEndsWithConnection ==
    /\ [](tasks <= 1)
    /\ [](transport \in {"none", "closed"} => tasks = 0)
    /\ [](heartbeat = "sleeping" <=> tasks = 1)
    /\ [][ (HeartbeatTick /\ transport # "open") =>
             /\ heartbeat' = "done"
             /\ UNCHANGED << transport, msgID, out_pending, out_queue,
                             written, submitted, resets, closes, dropped,
                             last_flow_control_activity, last_keepalive_sent >>
         ]_vars
    /\ (transport = "closing") ~> (heartbeat \in {"done", "cancelled"})

\* the heartbeat of a closing transport has ended at its tick, before
\* connection_lost, on the second connection of the protocol
C16_Witness ==
    /\ conns = 2
    /\ transport = "closing"
    /\ heartbeat = "done"
    /\ closes = 0

\* C17: the bytes that sendCmd writes for a request, fed to data_received
\* of a protocol whose line buffer is empty, are passed to the
\* controller's receivedMessage as one message with the command and the
\* payload fields of the request.
C17_RoundTrip ==
    [][ \A i \in 1..Len(written) :
          (EchoOf(i) /\ lineBuffer = << >>) =>
              /\ Len(dispatched') = Len(dispatched) + 1
              /\ LET msg == dispatched'[Len(dispatched')]
                 IN  /\ IsEnvelope(msg)
                     /\ JsonLoads(msg).command = written[i].command
                     /\ JsonLoads(msg).extra = written[i].extra
                     /\ JsonLoads(msg).messageID = written[i].messageID
      ]_vars

\* a step in which stop() is called
Stops == AsyncStop \/ AsyncUnloadEntry

\* C18: when an established connection is lost (transport error, or the
\* transport closed by message processing) and stop() is not called, the
\* supervisor enters RECONNECTING with a backoff wait and tells the
\* application on_disconnected; a retry follows every backoff wait, however
\* many have failed; RECONNECTING is left only by a retry that succeeds,
\* which brings CONNECTED and on_reconnected to the application, or by
\* stop().
C18_Reconnects ==
    /\ [][ (SupervisedConnectionLost /\ sup = "CONNECTED") =>
             /\ sup' = "RECONNECTING"
             /\ backoff' = "waiting"
             /\ events' = Append(events, "disconnected")
             /\ appConnected' = FALSE
         ]_vars
    /\ [](sup = "RECONNECTING" => backoff = "waiting")
    /\ [][ (sup = "RECONNECTING" /\ sup' # "RECONNECTING") =>
             \/ /\ sup' = "CONNECTED"
                /\ transport' = "open"
                /\ events' = Append(events, "reconnected")
                /\ appConnected' = TRUE
             \/ Stops
         ]_vars
    /\ [](\A i \in 1..Len(events) :
            events[i] = "reconnected" =>
                i > 1 /\ events[i - 1] = "disconnected")
    /\ (transport = "closing" /\ sup = "CONNECTED") ~> (sup # "CONNECTED")
    /\ \A b \in BOOLEAN :
          (sup = "RECONNECTING" /\ retried = b)
             ~> (sup # "RECONNECTING" \/ retried # b)

\* the connection was lost and then made again by a retry
C18_Witness ==
    /\ sup = "CONNECTED"
    /\ events = << "started", "disconnected", "reconnected" >>
    /\ appConnected
    /\ conns = 2
    /\ transport = "open"

\* C19: stop() is terminal: it cancels the backoff wait and closes the
\* transport, and until start() is called again the supervisor makes no
\* connect attempt and reports no on_reconnected.
C19_StopIsTerminal ==
    /\ [][ Stops =>
             /\ sup' = "DISCONNECTED"
             /\ backoff' = "none"
             /\ transport' # "open"
         ]_vars
    /\ [](sup = "DISCONNECTED" => backoff = "none" /\ transport # "open")
    /\ [][ sup = "DISCONNECTED" =>
             \/ SetupEntry
             \/ AsyncStart
             \/ /\ sup' = "DISCONNECTED"
                /\ conns' = conns
                /\ retried' = retried
                /\ events' \in {events, Append(events, "disconnected")}
         ]_vars

\* the supervisor was stopped during the backoff wait that followed a
\* failed retry
C19_Witness ==
    /\ sup = "DISCONNECTED"
    /\ events = << "started", "disconnected" >>
    /\ retried
    /\ owner = "none"

\* C20: when handler.start() raises ConnectionRefusedError,
\* async_setup_entry raises ConfigEntryNotReady, forwards no platform
\* setup and stores nothing for the entry in hass.data.
C20_SetupNotReady ==
    [][ AsyncSetupEntry("ConnectionRefusedError") =>
          /\ entry' = "ConfigEntryNotReady"
          /\ ~forwarded'
          /\ ~stored'
          /\ sup' = "DISCONNECTED"
      ]_vars

\* the setup of an entry that had been loaded and unloaded before was
\* refused
C20_Witness ==
    /\ entry = "ConfigEntryNotReady"
    /\ conns = 1
    /\ ~forwarded
    /\ ~stored
    /\ owner = "none"

\* C21: async_unload_entry tears the connection down whether
\* async_unload_platforms returns True or False: the handler's stop() is
\* called exactly once, the stop listener is cancelled, the entry is taken
\* out of hass.data, the domain key is removed when no other entry is left
\* under it, and the platform-unload result is returned.
C21_UnloadTearsDown ==
    [][ \A unload_ok \in BOOLEAN :
          (owner = "entry" /\ async_unload_entry(unload_ok)) =>
              /\ stopCalls' = stopCalls + 1
              /\ ~hass'.listener
              /\ ~stored'
              /\ hass'.domainKey = hass.others
              /\ hass'.returned = Bool(unload_ok)
      ]_vars

\* the platforms failed to unload while another entry was loaded: the
\* handler was stopped and the domain key is still there
C21_Witness ==
    /\ hass.returned = "False"
    /\ entry = "failed_unload"
    /\ stopCalls = 1
    /\ ~stored
    /\ hass.domainKey

\* C22: an update of an existing object is a partial merge with a minimal
\* diff: the attributes present in the update take its values, every other
\* attribute of the object and every other object stay as they were, and
\* what reaches the subscribers is exactly the object's name mapped to the
\* attributes whose values changed.
C22_PartialMerge ==
    [][ \A name \in ObjNames, attrs \in Updates :
          (name \in DOMAIN model /\ Upsert(name, attrs)) =>
              LET old == model[name].attrs
                  new == model'[name].attrs
                  applied == { a \in DOMAIN attrs :
                                 a \notin DOMAIN old \/ old[a] # attrs[a] }
              IN  /\ DOMAIN model' = DOMAIN model
                  /\ \A o \in DOMAIN model \ {name} : model'[o] = model[o]
                  /\ model'[name].objtyp = model[name].objtyp
                  /\ DOMAIN new = DOMAIN old \cup DOMAIN attrs
                  /\ \A a \in DOMAIN attrs : new[a] = attrs[a]
                  /\ \A a \in DOMAIN old \ DOMAIN attrs : new[a] = old[a]
                  /\ IF applied = {}
                     THEN diff' = << >> /\ coordinator_data' = coordinator_data
                     ELSE /\ diff' = [n \in {name} |->
                                         [a \in applied |-> attrs[a]]]
                          /\ coordinator_data' = diff'
      ]_vars

\* LIGHT1 kept its USE while an update of its STATUS alone reached the
\* subscribers, next to another object
C22_Witness ==
    /\ DOMAIN model = {"LIGHT1", "PUMP1"}
    /\ model["LIGHT1"].attrs = ("STATUS" :> "ON") @@ ("USE" :> "OFF")
    /\ diff = [n \in {"LIGHT1"} |-> [STATUS |-> "ON"]]
    /\ coordinator_data = diff

\* C23: every object inserted and not removed is returned by name lookup
\* and appears in the type scan of its type, and an object that was removed
\* is returned by neither.
C23_Reachable ==
    \A name \in ObjNames :
        IF name \in DOMAIN inserted
        THEN /\ get(model, name) # {}
             /\ name \in by_type(model, inserted[name])
        ELSE /\ get(model, name) = {}
             /\ \A other \in ObjNames : name \notin by_type(model, ObjTyp(other))

\* LIGHT1 was created, updated and removed while LIGHT2 and PUMP1 stayed
C23_Witness ==
    /\ DOMAIN inserted = {"LIGHT2", "PUMP1"}
    /\ by_type(model, "CIRCUIT") = {"LIGHT2"}
    /\ by_type(model, "PUMP") = {"PUMP1"}
    /\ get(model, "LIGHT1") = {}
    /\ DOMAIN coordinator_data = {"LIGHT1"}

\* C24: whatever STATUS and NORMAL the cover has when the service is
\* called, once the change requested by async_close_cover is applied
\* is_closed is True, and once the change requested by async_open_cover is
\* applied is_closed is False; each call makes exactly one change request,
\* for STATUS only, on the cover's own object.
C24_OpenClose ==
    [][ /\ (async_open_cover \/ async_close_cover) =>
              /\ Len(requests') = Len(requests) + 1
              /\ SubSeq(requests', 1, Len(requests)) = requests
              /\ requests'[Len(requests')].request.objnam = "COVER1"
              /\ DOMAIN requests'[Len(requests')].request.changes = {"STATUS"}
        /\ (/\ ApplyRequest
            /\ Head(requests).at["NORMAL"] = model["COVER1"].attrs["NORMAL"]) =>
              is_closed(model'["COVER1"].attrs) = (Head(requests).call = "close")
      ]_vars

\* a normally open cover (NORMAL is OFF) that was open has been closed by a
\* request, and a request to open it again is waiting
C24_Witness ==
    /\ "COVER1" \in DOMAIN model
    /\ model["COVER1"].attrs = ("STATUS" :> "OFF") @@ ("NORMAL" :> "OFF")
    /\ diff = [n \in {"COVER1"} |-> ("STATUS" :> "OFF")]
    /\ Len(requests) = 1
    /\ requests[1].call = "open"
    /\ requests[1].request.changes = ("STATUS" :> "ON")

\* the heater most recently seen assigned to the body, at construction or
\* after an update, "none" when only the null object was seen
Observed ==
    LET at == { i \in 1..Len(seen) : seen[i] # NULL_OBJNAM }
    IN  IF at = {}
        THEN "none"
        ELSE seen[CHOOSE i \in at : \A j \in at : j <= i]

\* C25: async_turn_on requests, on the body, the heater most recently seen
\* assigned to it, and the first heater of its list only when no heater has
\* been seen; an update that sets HEATER to the null object does not erase
\* the remembered heater.
C25_TurnOnRemembers ==
    [][ /\ async_turn_on =>
              LET r == requests'[Len(requests')].request
              IN  /\ Len(requests') = Len(requests) + 1
                  /\ r.objnam = "POOL1"
                  /\ DOMAIN r.changes = {"HEATER"}
                  /\ Observed # "none" => r.changes["HEATER"] = Observed
                  /\ (Observed = "none" /\ last_heater = NULL_OBJNAM) =>
                         r.changes["HEATER"] = heater_list[1]
                  /\ r.changes["HEATER"] = heater_list[1] =>
                         Observed \in {"none", heater_list[1]}
        /\ \A upd \in BodyUpdates :
              (BodyUpdate(upd) /\ model'["POOL1"].attrs["HEATER"] = NULL_OBJNAM)
                  => last_heater' = last_heater
      ]_vars

\* the body had HTR02, was turned off by the device, and turn_on asked for
\* HTR02 again
C25_Witness ==
    /\ seen = << "HTR02", NULL_OBJNAM >>
    /\ last_heater = "HTR02"
    /\ Len(requests) = 1
    /\ requests[1].call = "turn_on"
    /\ requests[1].at["HEATER"] = NULL_OBJNAM
    /\ requests[1].request.changes = ("HEATER" :> "HTR02")

\* C26: the in-flight count is never negative, it is 0 only when the
\* request queue is empty, and when positive it is the queue length plus 1.
C26_Accounting ==
    /\ out_pending >= 0
    /\ out_pending = 0 => out_queue = << >>
    /\ out_pending > 0 => out_pending = Len(out_queue) + 1

\* how long the in-flight count has been positive with no response
StallAge == IF stalledSince = None THEN 0 ELSE now - stalledSince

\* the longest stall when nothing but keepalives is submitted into it
StallLimit == FLOW_CONTROL_TIMEOUT + KEEPALIVE_INTERVAL

Deadlocked ==
    /\ out_pending > 0
    /\ now - last_flow_control_activity > FLOW_CONTROL_TIMEOUT

\* the step zeroes a positive in-flight count or takes something off the
\* queue
Discards ==
    \/ out_pending > 0 /\ out_pending' = 0
    \/ ~IsPrefix(out_queue, out_queue')

\* C28 as stated: the health monitor discards queued requests and zeroes
\* the in-flight count only in a tick that starts deadlocked, and in every
\* other tick the queue is left unchanged.
C28_ResetOnlyWhenDeadlocked ==
    [][ HeartbeatTick =>
          /\ Discards => Deadlocked
          /\ ~Deadlocked => out_queue' = out_queue
      ]_vars

\* C28 amended: the health monitor discards queued requests and zeroes the
\* in-flight count only in a tick that starts deadlocked; in every other
\* tick the queued requests stay in place and in order, and the only
\* change to the queue is the tick's own keepalive added at its end.
C28_ResetOnlyWhenDeadlocked_Amended ==
    [][ HeartbeatTick =>
          /\ Discards => /\ Deadlocked
                         /\ out_pending' = 0
                         /\ out_queue' = << >>
          /\ ~Deadlocked =>
                /\ out_pending' >= out_pending
                /\ \/ out_queue' = out_queue
                   \/ /\ out_pending > 0
                      /\ now - last_keepalive_sent > KEEPALIVE_INTERVAL
                      /\ Len(out_queue') = Len(out_queue) + 1
                      /\ IsPrefix(out_queue, out_queue')
                      /\ out_queue'[Len(out_queue')].command = "GetParamList"
      ]_vars

\* a tick has just discarded two queued requests, one of them a keepalive
\* that an earlier tick had added behind the other
C28_Witness ==
    /\ trace = << << "reset" >> >>
    /\ out_pending = 0
    /\ out_queue = << >>
    /\ Cardinality(dropped) = 2

\* C29: a keepalive that the health monitor has stamped as sent is not
\* lost while the connection is open: the monitor never discards it from
\* the queue.
C29_KeepaliveNotLost ==
    \A r \in dropped : r.command # "GetParamList"

\* C30: once processMessage has force-closed the transport, the rest of the
\* handling of the same received chunk dispatches no message to the
\* controller and writes no queued request.
C30_FailFast ==
    \A i, j \in 1..Len(trace) :
        (i < j /\ trace[i] = << "force close" >>)
            => trace[j][1] \notin {"receivedMessage", "write"}

\* C31: right after connection_made the in-flight count is 0, the request
\* queue is empty and the line buffer is empty, whatever the previous
\* connection of the same protocol object left behind.
C31_CleanStart ==
    [][conns' # conns =>
          out_pending' = 0 /\ out_queue' = << >> /\ lineBuffer' = << >>]_vars

\* the bytes that the step has received
NewBytes == SubSeq(rx', Len(rx) + 1, Len(rx'))

\* the received chunk is made of whole push notifications
NotificationsOnly ==
    /\ lineBuffer = << >>
    /\ \A i \in 1..Len(NewBytes) : NewBytes[i] \in {"N", "H", "Q", CR, LF}

\* C32: a chunk of push notifications leaves the in-flight count, the
\* request queue and the flow-control activity stamp as they were and writes
\* no request; every received chunk refreshes the data-received stamp.
C32_NotificationFrame ==
    [][Len(rx') > Len(rx) =>
          /\ last_data_received' = now
          /\ NotificationsOnly =>
                 /\ out_pending' = out_pending
                 /\ out_queue' = out_queue
                 /\ last_flow_control_activity' = last_flow_control_activity
                 /\ written' = written]_vars

\* a notification was handled while a request was waiting in the queue,
\* later than the last flow-control activity
C32_Witness ==
    /\ trace # << >>
    /\ trace[Len(trace)] = << "receivedMessage", << "N" >> >>
    /\ out_queue # << >>
    /\ last_data_received = now
    /\ last_flow_control_activity < now

\* the last thing the entity did was to take an update of its own STATUS
StatusUpdated ==
    /\ poolObject # << >>
    /\ last_call # << >>
    /\ last_call.call = "update"
    /\ poolObject.objnam \in DOMAIN last_call.updates
    /\ "STATUS" \in DOMAIN last_call.updates[poolObject.objnam]

\* C33: once an update of the light's STATUS has been taken, the optimistic
\* override is gone and the state written is the status of the object.
C33_OverrideCleared ==
    StatusUpdated =>
        /\ optimistic_state = "None"
        /\ ha_state.is_on = (poolObject.attrs["STATUS"] = "ON")

\* the update that the step has handed to the entity touches one of the
\* attributes the light looks at
Relevant(updates) ==
    /\ poolObject.objnam \in DOMAIN updates
    /\ DOMAIN updates[poolObject.objnam] \cap {"STATUS", "USE"} # {}

\* the step hands an update to the entity: the model has changed while the
\* connection is up
UpdateStep ==
    /\ poolObject # << >>
    /\ appConnected' = appConnected
    /\ model' # model
    /\ diff' # << >>

\* C34: a disconnection signal makes the entity unavailable; it becomes
\* available again only by a connection signal that finds its object in the
\* model or by an update that is relevant to it; an update that is not
\* relevant leaves the availability alone and writes no state.
C34_Availability ==
    [][/\ (poolObject # << >> /\ appConnected /\ ~appConnected')
            => ~available'
       /\ (poolObject # << >> /\ ~available /\ available')
            => \/ /\ ~appConnected /\ appConnected'
                  /\ poolObject.objnam \in DOMAIN model'
               \/ UpdateStep /\ Relevant(diff')
       /\ (UpdateStep /\ ~Relevant(diff'))
            => available' = available /\ ha_state' = ha_state]_vars

\* an update that is not relevant has reached the entity while it was
\* unavailable after a disconnection
C34_Witness ==
    /\ poolObject # << >>
    /\ ~available
    /\ appConnected
    /\ generation > poolObject.gen
    /\ last_call.call = "update"
    /\ ~last_call.updated

\* C35: on a connection signal the entity takes the model's current object
\* of its name, becomes available and writes its state; when the model has
\* no such object the entity keeps its object and its availability and
\* writes nothing.
C35_Rebind ==
    [][(poolObject # << >> /\ ~appConnected /\ appConnected') =>
          IF poolObject.objnam \in DOMAIN model'
          THEN /\ poolObject' = [objnam |-> poolObject.objnam,
                                 gen |-> generation',
                                 attrs |-> model'[poolObject.objnam].attrs]
               /\ available'
               /\ ha_state'.writes = ha_state.writes + 1
               /\ ha_state'.available
          ELSE /\ poolObject' = poolObject
               /\ available' = available
               /\ ha_state' = ha_state]_vars

\* a connection signal has found the model without the entity's object
C35_Witness ==
    /\ poolObject # << >>
    /\ last_call # << >>
    /\ last_call.call = "connection"
    /\ last_call.is_connected
    /\ ~last_call.found
    /\ poolObject.gen < generation
    /\ ~available

\* the supervisor has just invoked the hook
Hooked(hook) ==
    Len(events') = Len(events) + 1 /\ events'[Len(events')] = hook

\* C36: the coordinator is not connected while no handler is started, is
\* connected when async_start has succeeded, follows on_disconnected and
\* on_reconnected, each of which notifies the listeners, and is not
\* connected after async_stop; on_updated stores the diff as the data and
\* the listeners are notified of it.
C36_ConnectedFollows ==
    [][/\ (owner = "none" /\ owner' = "none") => ~appConnected'
       /\ (owner = "none" /\ owner' = "coordinator") => appConnected'
       /\ (owner = "coordinator" /\ owner' = "none") => ~appConnected'
       /\ Hooked("disconnected")
            => /\ ~appConnected'
               /\ notified' = [connected |-> FALSE, data |-> coordinator_data]
       /\ Hooked("reconnected")
            => /\ appConnected'
               /\ notified' = [connected |-> TRUE, data |-> coordinator_data]
       /\ (model' # model /\ diff' # << >>)
            => /\ coordinator_data' = diff'
               /\ notified' = [connected |-> appConnected, data |-> diff']
      ]_vars

\* the coordinator has been through a disconnection and a reconnection and
\* has then handed an update to its listeners
C36_Witness ==
    /\ owner = "coordinator"
    /\ events = << "started", "disconnected", "reconnected" >>
    /\ notified.connected
    /\ notified.data # << >>
    /\ notified.data = coordinator_data

\* C37: when no handler is started, which is how a failed async_start
\* leaves the coordinator, it is not connected and holds no registered stop
\* listener.
C37_FailedStartLeavesNothing ==
    owner = "none" => (~appConnected /\ ~hass.stop_listener)

\* C38: every probe of the manual step has stopped its controller exactly
\* once and left no connection open, and a connection error or missing
\* system info is shown to the user as cannot_connect.
C38_ProbeStopsOnce ==
    \A i \in 1..Len(hass.flow) :
        LET a == hass.flow[i]
        IN  a.probe # << >> =>
              /\ a.probe.stops = 1
              /\ ~a.probe.open
              /\ a.outcome \in {"no_system_info", "ConnectionRefusedError",
                                "OSError", "TimeoutError"}
                    => a.step = "form" /\ a.errors = "cannot_connect"

\* the three paths have been taken: start succeeded, the system info was
\* missing, and start raised
C38_Witness ==
    /\ Len(hass.flow) = 3
    /\ hass.flow[1].outcome = "ok"
    /\ hass.flow[2].outcome = "no_system_info"
    /\ hass.flow[3].outcome = "TimeoutError"

====
